---- MODULE Spec2Model ----
(***************************************************************************)
(* BikeTags (biketags.bkext/app/main.ts, embedded in src/README.md from    *)
(* line 219): the hierarchical tag engine of the Bike Outliner extension.  *)
(*                                                                         *)
(* Strings are sequences of one-character atoms.  "TAB" stands for the     *)
(* tab character; " " is the space.  Offsets of the source are 0-based and *)
(* half-open; Slice and CharAt translate them.                             *)
(***************************************************************************)
EXTENDS Integers, Sequences, FiniteSets, TLC

VARIABLES
    rowText,      \* row.text.string of every row
    attrs,        \* the attribute bag of every row: key -> None or Some(string)
    markers,      \* row.text attributes of every row: set of [name, pos], one
                  \* element for every character that carries attribute name
    editorFilter, \* editor.filter
    applied,      \* rows on which applyTagsToRow ran since their last text change
    observer,     \* editor.selection, whether the host owes a notification of it,
                  \* the observer's lastRowId and lastType, and what the last
                  \* notification did
    last,         \* the last operation: what ran, on which row, what it did
    input,        \* argument of the pure function under study
    output,       \* its result
    txn,          \* the apply-tags transaction of the editor: whether it is open
                  \* and the rows its callback has still to visit
    sidebar,      \* the Tags sidebar of the window: the tag-set attributes its
                  \* last rebuild read, and the tags it indexed from them
    windows,      \* the windows of the application and _initializedWindows
    threading,    \* the outline and the closure of the bullet-threading extension
    workspace     \* isRefreshing and the calls of refreshWorkspace in progress

\* the variables outside the document
shell == <<txn, sidebar, windows, threading, workspace>>

\* the document, the editor and the pure function under study
document == <<rowText, attrs, markers, editorFilter, applied, observer, input, output>>

vars == <<rowText, attrs, markers, editorFilter, applied, observer, last, input, output,
          txn, sidebar, windows, threading, workspace>>

(***************************************************************************)
(* Bounds                                                                  *)
(***************************************************************************)
MaxLen == 5        \* longest text given to findTrailingTags on its own
MaxTags == 3       \* largest tag set given to buildTagHierarchy on its own
MaxDepth == 3      \* deepest tag of those sets
NumRows == 2       \* rows of the outline
MaxWindows == 2    \* windows the application opens
ThreadRows == 3    \* rows of the outline of the bullet-threading extension
MaxCalls == 3      \* calls of refreshWorkspace that have not been forgotten
MaxSetups == 2     \* runs of setupTagsSidebar on one window
MaxPanels == 1     \* windows whose sidebar items are followed

COLOR_COUNT == 8

(***************************************************************************)
(* Characters and strings                                                  *)
(***************************************************************************)
Alphabet == {"#", "/", "a", "-", " ", "TAB"}

\* charCodeAt of the characters used
CharCode(c) ==
    CASE c = "TAB" -> 9
      [] c = " "   -> 32
      [] c = "#"   -> 35
      [] c = "-"   -> 45
      [] c = "/"   -> 47
      [] c = "a"   -> 97
      [] c = "b"   -> 98
      [] c = "c"   -> 99
      [] c = "f"   -> 102
      [] c = "h"   -> 104
      [] c = "s"   -> 115
      [] c = "t"   -> 116
      [] c = "w"   -> 119
      [] c = "y"   -> 121

\* /\s/
IsSpace(c) == c \in {" ", "TAB"}

\* [\w-]
IsTagChar(c) == c \in {"a", "b", "c", "f", "h", "s", "t", "w", "y", "-"}

\* s.slice(from, to) with 0 <= from, to <= s.length
Slice(s, from, to) == SubSeq(s, from + 1, to)

\* s[i], 0-based
CharAt(s, i) == s[i + 1]

Str(n) == UNION {[1..k -> Alphabet] : k \in 0..n}

Range(f) == {f[i] : i \in DOMAIN f}

Min(S) == CHOOSE x \in S : \A y \in S : x <= y

\* s.startsWith(p)
StartsWith(s, p) == Len(p) <= Len(s) /\ SubSeq(s, 1, Len(p)) = p

\* the trailing-whitespace loops of findTrailingTags
RECURSIVE TrimEnd(_)
TrimEnd(s) ==
    IF Len(s) > 0 /\ IsSpace(s[Len(s)])
    THEN TrimEnd(Slice(s, 0, Len(s) - 1))
    ELSE s

RECURSIVE TrimStart(_)
TrimStart(s) ==
    IF Len(s) > 0 /\ IsSpace(s[1])
    THEN TrimStart(Slice(s, 1, Len(s)))
    ELSE s

\* String.prototype.trim
Trim(s) == TrimStart(TrimEnd(s))

\* a < b in UTF-16 code-unit order, the order of Array.prototype.sort()
RECURSIVE StrLess(_, _)
StrLess(a, b) ==
    IF Len(b) = 0 THEN FALSE
    ELSE IF Len(a) = 0 THEN TRUE
    ELSE IF a[1] = b[1] THEN StrLess(Tail(a), Tail(b))
    ELSE CharCode(a[1]) < CharCode(b[1])

(***************************************************************************)
(* Tag Tokenizer                                                           *)
(***************************************************************************)
\* #[\w-/]+ : a pattern that lets "/" stand anywhere after the "#"
TagPatternAnySlashes(w) ==
    /\ Len(w) >= 2
    /\ w[1] = "#"
    /\ \A i \in 2..Len(w) : IsTagChar(w[i]) \/ w[i] = "/"

\* #[\w-]+(?:\/[\w-]+)*  matched against the whole of w
TagPattern(w) ==
    /\ Len(w) >= 2
    /\ w[1] = "#"
    /\ \A i \in 2..Len(w) : IsTagChar(w[i]) \/ w[i] = "/"
    /\ w[2] # "/"
    /\ w[Len(w)] # "/"
    /\ \A i \in 2..(Len(w) - 1) : ~(w[i] = "/" /\ w[i + 1] = "/")

\* re.exec(tail) for re = /(?:^|\s)(#[\w-]+(?:\/[\w-]+)*)$/ : the leftmost match,
\* the alternative ^ tried before \s
ReExecMissesCaret(tail) ==
    LET bySpace(i) == i < Len(tail) /\ IsSpace(CharAt(tail, i))
                      /\ TagPattern(Slice(tail, i + 1, Len(tail)))
        M == {i \in 0..Len(tail) : bySpace(i)}
    IN  IF M = {} THEN [found |-> FALSE, index |-> 0, group1 |-> <<>>]
        ELSE [found |-> TRUE, index |-> Min(M),
              group1 |-> Slice(tail, Min(M) + 1, Len(tail))]

ReExec(tail) ==
    LET byCaret(i) == i = 0 /\ TagPattern(tail)
        bySpace(i) == i < Len(tail) /\ IsSpace(CharAt(tail, i))
                      /\ TagPattern(Slice(tail, i + 1, Len(tail)))
        M == {i \in 0..Len(tail) : byCaret(i) \/ bySpace(i)}
        idx == Min(M)
    IN  IF M = {} THEN [found |-> FALSE, index |-> 0, group1 |-> <<>>]
        ELSE [found |-> TRUE, index |-> idx,
              group1 |-> IF byCaret(idx) THEN tail
                         ELSE Slice(tail, idx + 1, Len(tail))]

\* the while (true) loop of findTrailingTags; tokens.unshift puts each match in front
RECURSIVE ScanTags(_, _)
ScanTags(tail, tokens) ==
    LET m == ReExec(tail) IN
    IF ~m.found THEN tokens
    ELSE LET tagText == m.group1
             hasLeadingSpace == m.index > 0 /\ CharAt(tail, m.index) = " "
             startInTail == m.index + (IF hasLeadingSpace THEN 1 ELSE 0)
             start == startInTail
             end == start + Len(tagText)
         IN  ScanTags(TrimEnd(Slice(tail, 0, m.index)),
                      <<[tag |-> tagText, start |-> start, end |-> end]>> \o tokens)

findTrailingTags(s) == ScanTags(TrimEnd(s), <<>>)

(***************************************************************************)
(* Normalizer and Ancestor Expander                                        *)
(***************************************************************************)
\* index (1-based) of the first "/" of t, 0 when there is none
FirstSlash(t) ==
    LET S == {i \in 1..Len(t) : t[i] = "/"} IN IF S = {} THEN 0 ELSE Min(S)

\* index of the last character of the run of "/" that starts at i
RECURSIVE RunEnd(_, _)
RunEnd(t, i) == IF i < Len(t) /\ t[i + 1] = "/" THEN RunEnd(t, i + 1) ELSE i

\* t.replace(/\/+/, '/') : the pattern has no g flag, only the first run is replaced
ReplaceFirstSlashRun(t) ==
    LET i == FirstSlash(t) IN
    IF i = 0 THEN t
    ELSE SubSeq(t, 1, i) \o SubSeq(t, RunEnd(t, i) + 1, Len(t))

normalizeTag(tag) ==
    LET t0 == Trim(tag)
        t1 == IF ~StartsWith(t0, <<"#">>) THEN <<"#">> \o t0 ELSE t0
    IN  ReplaceFirstSlashRun(t1)

\* s.split('/')
RECURSIVE Split(_)
Split(s) ==
    LET i == FirstSlash(s) IN
    IF i = 0 THEN <<s>>
    ELSE <<SubSeq(s, 1, i - 1)>> \o Split(SubSeq(s, i + 1, Len(s)))

RECURSIVE JoinNoSeparator(_)
JoinNoSeparator(parts) ==
    IF Len(parts) = 0 THEN <<>>
    ELSE parts[1] \o JoinNoSeparator(Tail(parts))

\* parts.join('/')
RECURSIVE Join(_)
Join(parts) ==
    IF Len(parts) = 0 THEN <<>>
    ELSE IF Len(parts) = 1 THEN parts[1]
    ELSE parts[1] \o <<"/">> \o Join(Tail(parts))

addAncestorsOnlySelf(full) == <<full>>

\* the tag and its first segment, without what lies between them
addAncestorsRootAndSelf(full) ==
    IF FirstSlash(full) = 0 THEN <<full>>
    ELSE <<SubSeq(full, 1, FirstSlash(full) - 1), full>>

addAncestors(full) ==
    LET parts == Split(Slice(full, 1, Len(full)))
    IN  [i \in 1..Len(parts) |-> <<"#">> \o Join(SubSeq(parts, 1, i))]

(***************************************************************************)
(* Stable Color Assigner.  A signed 32-bit accumulator is kept as its two  *)
(* 16-bit halves [hi, lo] (two's complement), so that no intermediate      *)
(* value leaves the range of the model checker's integers.                 *)
(***************************************************************************)
Half == 65536

Int32Of(n) == [hi |-> n \div Half, lo |-> n % Half]   \* 0 <= n < 2^31

\* (h << 5) on 32 bits
Shl5(h) ==
    LET l == h.lo * 32 IN
    [hi |-> (h.hi * 32 + l \div Half) % Half, lo |-> l % Half]

\* (a + b) | 0
Add32(a, b) ==
    LET l == a.lo + b.lo IN
    [hi |-> (a.hi + b.hi + l \div Half) % Half, lo |-> l % Half]

IsNeg32(h) == h.hi >= Half \div 2

AbsNoFold(h) == h

\* Math.abs(h) as halves [hi, lo]; hi = 32768, lo = 0 for h = -2^31
Abs32(h) ==
    IF ~IsNeg32(h) THEN h
    ELSE IF h.lo = 0 THEN [hi |-> Half - h.hi, lo |-> 0]
    ELSE [hi |-> Half - 1 - h.hi, lo |-> Half - h.lo]

\* x % modulo for x = hi * 65536 + lo >= 0
Mod32(x, modulo) == ((x.hi % modulo) * (Half % modulo) + x.lo) % modulo

RECURSIVE HashLoop(_, _)
HashLoop(hash, rest) ==
    IF Len(rest) = 0 THEN hash
    ELSE HashLoop(Add32(Add32(Shl5(hash), hash), Int32Of(CharCode(rest[1]))),
                  Tail(rest))

stableIndexForTag(tag, modulo) == Mod32(Abs32(HashLoop(Int32Of(5381), tag)), modulo)

(***************************************************************************)
(* Arrays, Array.prototype.sort, JSON                                      *)
(***************************************************************************)
\* Set.prototype.add on an insertion-ordered set
SetAdd(seq, x) == IF x \in Range(seq) THEN seq ELSE Append(seq, x)

RECURSIVE SetAddAll(_, _)
SetAddAll(seq, xs) ==
    IF Len(xs) = 0 THEN seq ELSE SetAddAll(SetAdd(seq, xs[1]), Tail(xs))

\* insert x into the ascending sequence seq, after the elements equal to it
RECURSIVE Insert(_, _)
Insert(seq, x) ==
    IF Len(seq) = 0 THEN <<x>>
    ELSE IF StrLess(x, seq[1]) THEN <<x>> \o seq
    ELSE <<seq[1]>> \o Insert(Tail(seq), x)

RECURSIVE SortFrom(_, _)
SortFrom(done, rest) ==
    IF Len(rest) = 0 THEN done ELSE SortFrom(Insert(done, rest[1]), Tail(rest))

NoSort(arr) == arr

\* arr.sort() with the default comparator (stable, code-unit order)
Sort(arr) == SortFrom(<<>>, arr)

arraysEqual(a, b) ==
    /\ Len(a) = Len(b)
    /\ \A i \in 1..Len(a) : a[i] = b[i]

\* An attribute value is a string holding JSON text.  It is kept as the sequence
\* of its JSON tokens: punctuation, or a string literal with its characters.
Tok(t) == [t |-> t, v |-> <<>>]
StrTok(s) == [t |-> "str", v |-> s]

RECURSIVE JoinComma(_)
JoinComma(arr) ==
    IF Len(arr) = 0 THEN <<>>
    ELSE IF Len(arr) = 1 THEN <<StrTok(arr[1])>>
    ELSE <<StrTok(arr[1]), Tok(",")>> \o JoinComma(Tail(arr))

\* JSON.stringify of an array of strings
JSONStringify(arr) == <<Tok("[")>> \o JoinComma(arr) \o <<Tok("]")>>

\* JSON.parse: [ok] FALSE when it throws; else the value, an array of strings
\* (isArray, items) or something that is no array (an object, a string)
JSONThrow == [ok |-> FALSE, isArray |-> FALSE, items |-> <<>>]

JSONParse(raw) ==
    LET n == Len(raw)
        inner == SubSeq(raw, 2, n - 1)
        k == Len(inner)
    IN  IF n >= 2 /\ raw[1].t = "[" /\ raw[n].t = "]"
        THEN IF k = 0 THEN [ok |-> TRUE, isArray |-> TRUE, items |-> <<>>]
             ELSE IF /\ k % 2 = 1
                     /\ \A i \in 1..k : inner[i].t = (IF i % 2 = 1 THEN "str" ELSE ",")
             THEN [ok |-> TRUE, isArray |-> TRUE,
                   items |-> [i \in 1..((k + 1) \div 2) |-> inner[2 * i - 1].v]]
             ELSE JSONThrow
        ELSE IF n = 2 /\ raw[1].t = "{" /\ raw[2].t = "}"
        THEN [ok |-> TRUE, isArray |-> FALSE, items |-> <<>>]
        ELSE IF n = 1 /\ raw[1].t = "str"
        THEN [ok |-> TRUE, isArray |-> FALSE, items |-> <<>>]
        ELSE JSONThrow

(***************************************************************************)
(* The host document: rows, attribute bags, attributed text                *)
(***************************************************************************)
Rows == 1..NumRows

None == <<>>
Some(v) == <<v>>

TAGS_ATTR_NEW == "bt-tags"
TAGS_ATTR_OLD == "data-bt-tags"
FILTER_ATTR_NEW == "bt-filter"
FILTER_ATTR_OLD == "data-bt-filter"
AttrKeys == {TAGS_ATTR_NEW, TAGS_ATTR_OLD, FILTER_ATTR_NEW, FILTER_ATTR_OLD}

ColorNames == <<"bt-color-0", "bt-color-1", "bt-color-2", "bt-color-3",
                "bt-color-4", "bt-color-5", "bt-color-6", "bt-color-7">>

\* the template literal `bt-color-${i}`
ColorAttr(i) == ColorNames[i + 1]

\* a value used in a condition: undefined and '' are falsy
Truthy(opt) == opt # None /\ Len(opt[1]) > 0

\* The Row object handed to the engine: its text, attribute bag and text
\* attributes, with the number of mutating host calls made on it and the branch
\* applyTagsToRow left by.
RowOf(r) == [text |-> rowText[r], attrs |-> attrs[r], marks |-> markers[r],
             calls |-> 0, branch |-> "-"]

\* row.getAttribute(key, 'string')
getAttribute(row, key) == row.attrs[key]

\* row.setAttribute(key, value)
setAttribute(row, key, value) ==
    [row EXCEPT !.attrs[key] = Some(value), !.calls = @ + 1]

\* row.removeAttribute(key)
removeAttribute(row, key) ==
    [row EXCEPT !.attrs[key] = None, !.calls = @ + 1]

\* row.text.removeAttribute(name)
textRemoveAttribute(row, name) ==
    [row EXCEPT !.marks = {m \in @ : m.name # name}, !.calls = @ + 1]

\* row.text.addAttribute(name, '', [start, end])
textAddAttribute(row, name, start, end) ==
    [row EXCEPT !.marks = @ \cup {[name |-> name, pos |-> p] : p \in start..(end - 1)},
                !.calls = @ + 1]

\* a ?? b : b only when a is undefined
getRowTagsAttribute(row) ==
    IF getAttribute(row, TAGS_ATTR_NEW) # None
    THEN getAttribute(row, TAGS_ATTR_NEW)
    ELSE getAttribute(row, TAGS_ATTR_OLD)

setRowTagsAttributeClearsFilter(row, value) ==
    LET r1 == setAttribute(setAttribute(row, TAGS_ATTR_NEW, value), TAGS_ATTR_OLD, value)
    IN  removeAttribute(removeAttribute(r1, FILTER_ATTR_NEW), FILTER_ATTR_OLD)

setRowTagsAttribute(row, value) ==
    setAttribute(setAttribute(row, TAGS_ATTR_NEW, value), TAGS_ATTR_OLD, value)

removeRowTagsAttribute(row) ==
    removeAttribute(removeAttribute(row, TAGS_ATTR_NEW), TAGS_ATTR_OLD)

setRowFilterAttributeNewOnly(row, value) == setAttribute(row, FILTER_ATTR_NEW, value)

setRowFilterAttribute(row, value) ==
    setAttribute(setAttribute(row, FILTER_ATTR_NEW, value), FILTER_ATTR_OLD, value)

removeRowFilterAttribute(row) ==
    removeAttribute(removeAttribute(row, FILTER_ATTR_NEW), FILTER_ATTR_OLD)

(***************************************************************************)
(* Change-Gated Row Updater                                                *)
(***************************************************************************)
\* the first loop over tokens: tagPaths, a Set in insertion order
RECURSIVE TagPaths(_, _)
TagPaths(tokens, tagPaths) ==
    IF Len(tokens) = 0 THEN tagPaths
    ELSE TagPaths(Tail(tokens),
                  SetAddAll(tagPaths, addAncestors(normalizeTag(tokens[1].tag))))

\* for (let i = 0; i < COLOR_COUNT; i++) row.text.removeAttribute(`bt-color-${i}`)
RECURSIVE RemoveColors(_, _)
RemoveColors(row, i) ==
    IF i < COLOR_COUNT
    THEN RemoveColors(textRemoveAttribute(row, ColorAttr(i)), i + 1)
    ELSE row

\* the second loop over tokens: one biketag and one bt-color-k attribute each
RECURSIVE AddMarkers(_, _)
AddMarkers(row, tokens) ==
    IF Len(tokens) = 0 THEN row
    ELSE LET token == tokens[1]
             normalized == normalizeTag(token.tag)
             r1 == textAddAttribute(row, "biketag", token.start, token.end)
             colorIndex == stableIndexForTag(normalized, COLOR_COUNT)
             r2 == textAddAttribute(r1, ColorAttr(colorIndex), token.start, token.end)
         IN  AddMarkers(r2, Tail(tokens))

ExistingEqualsUnsorted(existingRaw, newSet) ==
    LET parsed == JSONParse(existingRaw[1]) IN
    /\ parsed.ok
    /\ parsed.isArray
    /\ arraysEqual(parsed.items, newSet)

\* the try block: TRUE when arraysEqual(existing, newSet) returned true; a throw
\* of JSON.parse, or of slice/sort on a value that is no array, is caught
ExistingEquals(existingRaw, newSet) ==
    LET parsed == JSONParse(existingRaw[1]) IN
    /\ parsed.ok
    /\ parsed.isArray
    /\ arraysEqual(Sort(parsed.items), newSet)

applyTagsToRowNoGate(row) ==
    LET tokens == findTrailingTags(row.text) IN
    IF Len(tokens) = 0
    THEN IF Truthy(getRowTagsAttribute(row))
         THEN [removeRowTagsAttribute(row) EXCEPT !.branch = "removed"]
         ELSE [row EXCEPT !.branch = "none"]
    ELSE LET newSet == Sort(TagPaths(tokens, <<>>))
             r1 == RemoveColors(textRemoveAttribute(row, "biketag"), 0)
             r2 == AddMarkers(r1, tokens)
         IN  [setRowTagsAttribute(r2, JSONStringify(newSet)) EXCEPT !.branch = "applied"]

applyTagsToRow(row) ==
    LET tokens == findTrailingTags(row.text) IN
    IF Len(tokens) = 0
    THEN IF Truthy(getRowTagsAttribute(row))
         THEN [removeRowTagsAttribute(row) EXCEPT !.branch = "removed"]
         ELSE [row EXCEPT !.branch = "none"]
    ELSE LET newSet == Sort(TagPaths(tokens, <<>>))
             existingRaw == getRowTagsAttribute(row)
         IN  IF Truthy(existingRaw) /\ ExistingEquals(existingRaw, newSet)
             THEN [row EXCEPT !.branch = "equal"]
             ELSE LET r1 == RemoveColors(textRemoveAttribute(row, "biketag"), 0)
                      r2 == AddMarkers(r1, tokens)
                  IN  [setRowTagsAttribute(r2, JSONStringify(newSet))
                          EXCEPT !.branch = "applied"]

\* applyTagsCommand(context) over the rows of the outline, in document order;
\* the result: the return value and every row afterwards
ApplyStepGatedByFirstRow(outline, r) ==
    LET res == applyTagsToRow([outline[r] EXCEPT !.attrs = outline[1].attrs])
    IN  [outline EXCEPT ![r] = IF res.branch = "applied" THEN res ELSE @]

\* applyTagsToRow(row) on the row r of the outline: the other rows are not
\* read and not written
ApplyStep(outline, r) == [outline EXCEPT ![r] = applyTagsToRow(@)]

\* for (const row of ...) applyTagsToRow(row), the rows taken in the order given
RECURSIVE ApplyInOrder(_, _)
ApplyInOrder(order, outline) ==
    IF Len(order) = 0 THEN outline
    ELSE ApplyInOrder(Tail(order), ApplyStep(outline, order[1]))

\* outline.root.descendants: document traversal order
DocumentOrder == [i \in 1..NumRows |-> i]

applyTagsCommand(context, outline) ==
    IF ~context.editor THEN [ret |-> FALSE, rows |-> outline]
    ELSE [ret |-> TRUE, rows |-> ApplyInOrder(DocumentOrder, outline)]

(***************************************************************************)
(* The selection observer of activate                                      *)
(***************************************************************************)
\* if (cond) applyTagsToRowId(editor.outline, rowId)
ApplyIf(cond, outline, rowId) ==
    IF cond THEN [outline EXCEPT ![rowId] = applyTagsToRow(@)] ELSE outline

\* the rows the two conditions of the handler name
Invoked(first, currentRow, second, lastRowId) ==
    (IF first THEN {currentRow} ELSE {}) \cup (IF second THEN {lastRowId} ELSE {})

\* as observeSelection, but the second test is the else of the first
observeSelectionElseIf(outline, lastRowId, lastType, selection) ==
    IF selection = None
    THEN [rows |-> outline, lastRowId |-> lastRowId, lastType |-> lastType,
          invoked |-> {}]
    ELSE LET currentRow == selection[1].row
             currentType == selection[1].type
             first == lastType \in {"caret", "text"} /\ currentType = "block"
             second == /\ ~first
                       /\ lastRowId # 0
                       /\ currentRow # lastRowId
                       /\ lastType \in {"caret", "text"}
         IN  [rows |-> ApplyIf(second, ApplyIf(first, outline, currentRow), lastRowId),
              lastRowId |-> currentRow, lastType |-> currentType,
              invoked |-> Invoked(first, currentRow, second, lastRowId)]

\* as observeSelection, but the row left is updated whatever lastType is
observeSelectionAnyType(outline, lastRowId, lastType, selection) ==
    IF selection = None
    THEN [rows |-> outline, lastRowId |-> lastRowId, lastType |-> lastType,
          invoked |-> {}]
    ELSE LET currentRow == selection[1].row
             currentType == selection[1].type
             first == lastType \in {"caret", "text"} /\ currentType = "block"
             second == lastRowId # 0 /\ currentRow # lastRowId
         IN  [rows |-> ApplyIf(second, ApplyIf(first, outline, currentRow), lastRowId),
              lastRowId |-> currentRow, lastType |-> currentType,
              invoked |-> Invoked(first, currentRow, second, lastRowId)]

\* the handler passed to editor.observeSelection: lastRowId is 0 and lastType
\* "none" while undefined.  The result: the rows afterwards, the two closure
\* variables, and the rows applyTagsToRow was invoked for.
observeSelection(outline, lastRowId, lastType, selection) ==
    IF selection = None
    THEN [rows |-> outline, lastRowId |-> lastRowId, lastType |-> lastType,
          invoked |-> {}]
    ELSE LET currentRow == selection[1].row
             currentType == selection[1].type
             first == lastType \in {"caret", "text"} /\ currentType = "block"
             second == /\ lastRowId # 0
                       /\ currentRow # lastRowId
                       /\ lastType \in {"caret", "text"}
         IN  [rows |-> ApplyIf(second, ApplyIf(first, outline, currentRow), lastRowId),
              lastRowId |-> currentRow, lastType |-> currentType,
              invoked |-> Invoked(first, currentRow, second, lastRowId)]

(***************************************************************************)
(* Filter Matcher: the command and the sidebar click                       *)
(***************************************************************************)
\* the value '1' of the filter attributes
FilterOn == <<Tok("1")>>

\* selection.type, selection.row, selection.detail.char / headChar
caretCharIndex(selection) ==
    IF selection.type = "caret" THEN Some(selection.char)
    ELSE IF selection.type = "text" THEN Some(selection.headChar)
    ELSE None

RECURSIVE TokenAtIndex(_, _)
TokenAtIndex(tokens, index) ==
    IF Len(tokens) = 0 THEN None
    ELSE LET t == tokens[1] IN
         IF (index >= t.start /\ index < t.end) \/ index = t.end
         THEN Some(normalizeTag(t.tag))
         ELSE IF index > 0 /\ index - 1 >= t.start /\ index - 1 < t.end
         THEN Some(normalizeTag(t.tag))
         ELSE TokenAtIndex(Tail(tokens), index)

tagFromSelection(selection) ==
    LET index == caretCharIndex(selection)
        tokens == findTrailingTags(rowText[selection.row])
    IN  IF Len(tokens) = 0 THEN None
        ELSE IF index = None THEN None
        ELSE TokenAtIndex(tokens, index[1])

lastTrailingTag(r) ==
    LET tokens == findTrailingTags(rowText[r]) IN
    IF Len(tokens) = 0 THEN None
    ELSE Some(normalizeTag(tokens[Len(tokens)].tag))

\* list.some(t => t === target || t.startsWith(target + '/')) in the command
RECURSIVE CommandSome(_, _)
CommandSome(list, target) ==
    IF Len(list) = 0 THEN FALSE
    ELSE \/ list[1] = target
         \/ StartsWith(list[1], target \o <<"/">>)
         \/ CommandSome(Tail(list), target)

CommandMatchNoSlash(raw, target) ==
    /\ Truthy(raw)
    /\ LET list == JSONParse(raw[1]) IN
       list.ok /\ list.isArray
       /\ \E i \in 1..Len(list.items) : StartsWith(list.items[i], target)

\* the body of the command's loop up to "if (match)": a throw of JSON.parse, or
\* of list.some on a value that is no array, is caught and leaves match false
CommandMatch(raw, target) ==
    /\ Truthy(raw)
    /\ LET list == JSONParse(raw[1]) IN
       list.ok /\ list.isArray /\ CommandSome(list.items, target)

CommandFilterRow(row, target) ==
    IF CommandMatch(getRowTagsAttribute(row), target)
    THEN setRowFilterAttribute(row, FilterOn)
    ELSE removeRowFilterAttribute(row)

ReturnFalseClearsFilter ==
    [ret |-> FALSE, target |-> None,
     attrs |-> [r \in Rows |-> removeRowFilterAttribute(RowOf(r)).attrs],
     filter |-> ""]

\* "return false": nothing is changed
ReturnFalse == [ret |-> FALSE, target |-> None, attrs |-> attrs, filter |-> editorFilter]

\* a || b
OrElse(a, b) == IF Truthy(a) THEN a ELSE b

\* target = tagFromSelection(selection) || lastTrailingTag(selection.row)
SelectionTarget(selection) ==
    OrElse(tagFromSelection(selection), lastTrailingTag(selection.row))

\* from "if (!target) return false" on: the transaction over every row
FilterTransaction(target) ==
    IF ~Truthy(target) THEN ReturnFalse
    ELSE [ret |-> TRUE, target |-> target,
          attrs |-> [r \in Rows |-> CommandFilterRow(RowOf(r), target[1]).attrs],
          filter |-> "//@bt-filter"]

\* filterByTagCommand(context): context.editor (present or not), context.tag,
\* editor.selection.  The result: the return value, every row's attribute bag
\* and editor.filter afterwards.
filterByTagCommand(context) ==
    IF ~context.editor THEN ReturnFalse
    ELSE IF Truthy(context.tag) THEN FilterTransaction(context.tag)
    ELSE IF context.selection = None THEN ReturnFalse
    ELSE FilterTransaction(SelectionTarget(context.selection[1]))

\* list.some(...) in the action of a sidebar item
RECURSIVE SidebarSome(_, _)
SidebarSome(list, target) ==
    IF Len(list) = 0 THEN FALSE
    ELSE \/ list[1] = target
         \/ StartsWith(list[1], target \o <<"/">>)
         \/ SidebarSome(Tail(list), target)

SidebarMatchLegacyKey(row, target) ==
    LET raw == getAttribute(row, TAGS_ATTR_OLD) IN
    /\ Truthy(raw)
    /\ LET list == JSONParse(raw[1]) IN
       list.ok /\ list.isArray /\ SidebarSome(list.items, target)

SidebarMatch(row, target) ==
    LET raw == getRowTagsAttribute(row) IN
    /\ Truthy(raw)
    /\ LET list == JSONParse(raw[1]) IN
       list.ok /\ list.isArray /\ SidebarSome(list.items, target)

SidebarFilterRow(row, target) ==
    IF SidebarMatch(row, target)
    THEN setRowFilterAttribute(row, FilterOn)
    ELSE removeRowFilterAttribute(row)

\* the action closure of the sidebar item of node.tag, window.currentOutlineEditor
\* present or not
sidebarAction(hasEditor, nodeTag) ==
    IF ~hasEditor THEN [attrs |-> attrs, filter |-> editorFilter]
    ELSE [attrs |-> [r \in Rows |-> SidebarFilterRow(RowOf(r), nodeTag).attrs],
          filter |-> "//@bt-filter"]

clearFilterCommand(context) ==
    IF ~context.editor THEN [ret |-> FALSE, attrs |-> attrs, filter |-> editorFilter]
    ELSE [ret |-> TRUE,
          attrs |-> [r \in Rows |-> removeRowFilterAttribute(RowOf(r)).attrs],
          filter |-> ""]

(***************************************************************************)
(* Tag Index and Hierarchy Builder                                         *)
(***************************************************************************)
\* a.split('/').length
Depth(t) == Len(Split(t))

\* the comparator of sortedByDepth: depth first, then a.localeCompare(b); on
\* the characters used, with every tag starting with "#", localeCompare orders
\* as the code units do
DepthLess(a, b) ==
    \/ Depth(a) < Depth(b)
    \/ Depth(a) = Depth(b) /\ StrLess(a, b)

RECURSIVE InsertByDepth(_, _)
InsertByDepth(seq, x) ==
    IF Len(seq) = 0 THEN <<x>>
    ELSE IF DepthLess(x, seq[1]) THEN <<x>> \o seq
    ELSE <<seq[1]>> \o InsertByDepth(Tail(seq), x)

\* Array.from(tags).sort(...): tags holds no duplicates, the order is total
RECURSIVE SortedByDepth(_)
SortedByDepth(tags) ==
    IF tags = {} THEN <<>>
    ELSE LET t == CHOOSE x \in tags : TRUE
         IN  InsertByDepth(SortedByDepth(tags \ {t}), t)

\* tag.lastIndexOf('/'), 0-based, -1 when there is none
LastIndexOfSlash(t) ==
    LET S == {i \in 1..Len(t) : t[i] = "/"} IN
    IF S = {} THEN -1 ELSE (CHOOSE x \in S : \A y \in S : y <= x) - 1

\* ensureNode(t) on nodeMap; a node is known by its tag, nodeMap[t] is its children
ensureNode(nodeMap, t) ==
    IF t \in DOMAIN nodeMap THEN nodeMap ELSE (t :> <<>>) @@ nodeMap

PushAlways(seq, x) == Append(seq, x)

\* array.includes(x) then push
PushOnce(seq, x) == IF x \in Range(seq) THEN seq ELSE Append(seq, x)

\* the for loop of buildTagHierarchy
RECURSIVE BuildLoop(_, _, _)
BuildLoop(sorted, nodeMap, rootNodes) ==
    IF Len(sorted) = 0 THEN [nodeMap |-> nodeMap, rootNodes |-> rootNodes]
    ELSE LET tag == sorted[1]
             m1 == ensureNode(nodeMap, tag)
             lastSlash == LastIndexOfSlash(tag)
         IN  IF lastSlash > 0
             THEN LET parentTag == Slice(tag, 0, lastSlash)
                      m2 == ensureNode(m1, parentTag)
                      m3 == [m2 EXCEPT ![parentTag] = PushOnce(@, tag)]
                  IN  BuildLoop(Tail(sorted), m3,
                                IF FirstSlash(parentTag) = 0
                                THEN PushOnce(rootNodes, parentTag)
                                ELSE rootNodes)
             ELSE BuildLoop(Tail(sorted), m1, PushOnce(rootNodes, tag))

\* the forest: rootNodes, and for every node created its children, in order
buildTagHierarchy(tags) == BuildLoop(SortedByDepth(tags), <<>>, <<>>)

\* indexAllTags(outline): the tags of the data-bt-tags attribute of every
\* row.  A throw of JSON.parse, or of list.forEach on a value that is no
\* array, is caught and the row adds nothing.
RECURSIVE IndexLoop(_, _, _)
IndexLoop(outline, order, tags) ==
    IF Len(order) = 0 THEN tags
    ELSE LET raw == getAttribute(outline[order[1]], "data-bt-tags")
             list == IF Truthy(raw) THEN JSONParse(raw[1])
                     ELSE [ok |-> FALSE, isArray |-> FALSE, items |-> <<>>]
         IN  IndexLoop(outline, Tail(order),
                       IF list.ok /\ list.isArray THEN tags \cup Range(list.items)
                       ELSE tags)

indexAllTags(outline) == IndexLoop(outline, DocumentOrder, {})

\* updateSidebarTags(): allTags and the hierarchy the sidebar items are made of
updateSidebarTags(outline) ==
    LET allTags == indexAllTags(outline)
    IN  [allTags |-> allTags, hierarchy |-> buildTagHierarchy(allTags)]

(***************************************************************************)
(* Sidebar items of a window                                               *)
(***************************************************************************)
\* 'biketags:tag:'
TagIdPrefix == <<"b", "i", "k", "e", "t", "a", "g", "s", ":", "t", "a", "g", ":">>

\* core.replace(/\//g, '--').replace(/[^a-zA-Z0-9:_-]/g, '-') on one character:
\* "-" is in the class that is kept, so the second replace leaves the "--" of
\* the first alone
SanitizeChar(c) ==
    IF c = "/" THEN <<"-", "-">>
    ELSE IF c \in {"a", "b", "c", "f", "h", "s", "t", "w", "y", "-"} THEN <<c>>
    ELSE <<"-">>

RECURSIVE SanitizeCore(_)
SanitizeCore(core) ==
    IF Len(core) = 0 THEN <<>>
    ELSE SanitizeChar(core[1]) \o SanitizeCore(Tail(core))

\* the closure sanitizeId of addTagHierarchyToSidebar
sanitizeId(tag) ==
    LET core == IF StartsWith(tag, <<"#">>) THEN Slice(tag, 1, Len(tag)) ELSE tag
    IN  TagIdPrefix \o SanitizeCore(core)

\* id of the group item
GroupId == <<"biketags:tags">>

\* closures of setupTagsSidebar that one window keeps alive
Closures == 1..MaxSetups

\* what window.sidebar.addItem does with an id that a live item has: the host
\* keeps both items, or throws
DuplicatePolicies == {"kept", "rejected"}

\* the sidebar of a window before any setup: no item, no closure, no editor
PanelInit ==
    [items |-> {}, closures |-> 0, subscribed |-> {}, editor |-> FALSE, latest |-> 0]

\* window.sidebar.addItem({ id, ..., ordering }) in a try, the same without
\* ordering in its catch, whose own catch logs: an item that closure by holds,
\* or nothing
addItem(items, id, by, policy) ==
    IF policy = "rejected" /\ \E i \in items : i.id = id THEN items
    ELSE items \cup {[id |-> id, by |-> by]}

\* tagItemHandles.forEach(h => h.dispose()) of closure by
disposeHandles(items, by) == {i \in items : ~(i.by = by /\ i.id # GroupId)}

\* addTagHierarchyToSidebar(window, nodes, afterId, level): an item for every
\* node, the children of a node after it
RECURSIVE addTagHierarchyToSidebar(_, _, _, _, _)
addTagHierarchyToSidebar(items, forest, nodes, by, policy) ==
    IF Len(nodes) = 0 THEN items
    ELSE addTagHierarchyToSidebar(
             addTagHierarchyToSidebar(
                 addItem(items, sanitizeId(nodes[1]), by, policy),
                 forest, forest.nodeMap[nodes[1]], by, policy),
             forest, Tail(nodes), by, policy)

\* updateSidebarTags() of closure by, hierarchy being
\* buildTagHierarchy(indexAllTags(editor.outline))
updateSidebarItems(panel, by, hierarchy, policy) ==
    [panel EXCEPT !.items = addTagHierarchyToSidebar(disposeHandles(@, by), hierarchy,
                                                     hierarchy.rootNodes, by, policy),
                  !.latest = by]

\* setupEditorObserver(editor) of closure by
setupEditorObserver(panel, by, editor, hierarchy, policy) ==
    IF ~editor THEN [panel EXCEPT !.items = disposeHandles(@, by)]
    ELSE [updateSidebarItems(panel, by, hierarchy, policy) EXCEPT !.subscribed = @ \cup {by}]

\* setupTagsSidebar(window) on a window with a sidebar: a new closure with its
\* own tagItemHandles, the group item, the current editor handled at once
setupTagsSidebar(panel, hierarchy, policy) ==
    IF panel.editor
    THEN setupEditorObserver(
             [panel EXCEPT !.items = addItem(@, GroupId, panel.closures + 1, policy),
                           !.closures = @ + 1],
             panel.closures + 1, TRUE, hierarchy, policy)
    ELSE [panel EXCEPT !.items = addItem(@, GroupId, panel.closures + 1, policy),
                       !.closures = @ + 1]

\* the callbacks given to window.observeCurrentOutlineEditor, from closure by on
RECURSIVE observeCurrentOutlineEditor(_, _, _, _, _)
observeCurrentOutlineEditor(panel, by, editor, hierarchy, policy) ==
    IF by > panel.closures THEN panel
    ELSE observeCurrentOutlineEditor(
             setupEditorObserver(panel, by, editor, hierarchy, policy),
             by + 1, editor, hierarchy, policy)

\* the callbacks given to editor.outline.streamQuery, from closure by on
RECURSIVE streamQuery(_, _, _, _)
streamQuery(panel, by, hierarchy, policy) ==
    IF by > panel.closures THEN panel
    ELSE streamQuery(IF by \in panel.subscribed
                     THEN updateSidebarItems(panel, by, hierarchy, policy)
                     ELSE panel,
                     by + 1, hierarchy, policy)

(***************************************************************************)
(* Sidebar setup, once per window                                          *)
(***************************************************************************)
\* the windows the application can open; 0 stands for no window
Windows == 1..MaxWindows

\* const maxAttempts = 10
maxAttempts == 10

\* how a run of setupTagsSidebar(window) can end: set up, returned at
\* "if (!window.sidebar)", or thrown
SetupOutcomes == {"ok", "no-sidebar", "threw"}

setupTagsSidebarOnceMarksWhenSetUp(ws, window, outcome) ==
    IF window \in ws.initializedWindows THEN ws
    ELSE [ws EXCEPT !.initializedWindows = IF outcome = "ok" THEN @ \cup {window} ELSE @,
                    !.setups[window] = @ + 1,
                    !.outcome[window] = outcome]

\* setupTagsSidebarOnce(window): the window is added to _initializedWindows
\* before setupTagsSidebar runs; what setupTagsSidebar throws is caught
setupTagsSidebarOnce(ws, window, outcome) ==
    IF window \in ws.initializedWindows THEN ws
    ELSE [ws EXCEPT !.initializedWindows = @ \cup {window},
                    !.setups[window] = @ + 1,
                    !.outcome[window] = outcome]

(***************************************************************************)
(* Bullet threading (style/main.ts, from line 48)                          *)
(***************************************************************************)
ThreadIds == 1..ThreadRows

\* buildAncestorChain(row): the row and its ancestors below the outline root
RECURSIVE buildAncestorChain(_, _)
buildAncestorChain(parent, row) ==
    IF row = 0 THEN {} ELSE {row} \cup buildAncestorChain(parent, parent[row])

\* updateThreadingAttributes(): th holds editor.selection, the rows that carry
\* the attribute, and the two closure variables
updateThreadingAttributes(th) ==
    IF th.selection = None
    THEN [th EXCEPT !.marked = @ \ th.previousThreadingRowIds,
                    !.previousThreadingRowIds = {},
                    !.previousSelectedRowId = 0,
                    !.branch = "cleared"]
    ELSE LET selectedRowId == th.selection[1].row IN
         IF selectedRowId = th.previousSelectedRowId
         THEN [th EXCEPT !.branch = "same-row"]
         ELSE LET newThreadingRowIds == buildAncestorChain(th.parent, selectedRowId)
                  rowsToRemove == th.previousThreadingRowIds \ newThreadingRowIds
                  rowsToAdd == newThreadingRowIds \ th.previousThreadingRowIds
              IN  [th EXCEPT !.marked = (@ \ rowsToRemove) \cup rowsToAdd,
                             !.previousThreadingRowIds = newThreadingRowIds,
                             !.previousSelectedRowId = selectedRowId,
                             !.branch = "updated"]

(***************************************************************************)
(* Workspace refresh (workspace.bkext/app/main.ts, src/unnamed/part_001)   *)
(***************************************************************************)
Calls == 1..MaxCalls

Permissions == {"clipboardRead", "clipboardWrite", "openURL"}

\* what bike.clipboard.readText() gives after the wait: nothing, text that is
\* no JSON, JSON that is no array, an array whose first item lacks a field,
\* an array of files; or it throws
ClipboardData == {"empty", "unparsable", "non-array", "bad-fields", "files", "throws"}

\* a call is in progress: it has passed the isRefreshing check and has not ended
InProgress(ws) == {c \in Calls : ws.pc[c] = "wait"}

refreshWorkspaceCheckInsideTry(ws, c, originalClipboard) ==
    IF ws.isRefreshing
    THEN [ws EXCEPT !.pc[c] = "skipped", !.did = {}, !.isRefreshing = FALSE]
    ELSE LET reads == IF "clipboardRead" \in ws.permissions THEN {"read"} ELSE {}
         IN  IF "openURL" \in ws.permissions
             THEN [ws EXCEPT !.isRefreshing = TRUE, !.pc[c] = "wait",
                             !.original[c] = originalClipboard /\ reads # {},
                             !.did = reads \cup {"open"}]
             ELSE [ws EXCEPT !.isRefreshing = FALSE, !.pc[c] = "no-openURL",
                             !.did = reads]

\* refreshWorkspace(context) up to its await: the isRefreshing check, the
\* read of the clipboard to restore, the shortcut URL opened.  did: what the
\* step touched.
refreshWorkspace(ws, c, originalClipboard) ==
    IF ws.isRefreshing
    THEN [ws EXCEPT !.pc[c] = "skipped", !.did = {}]
    ELSE LET reads == IF "clipboardRead" \in ws.permissions THEN {"read"} ELSE {}
         IN  IF "openURL" \in ws.permissions
             THEN [ws EXCEPT !.isRefreshing = TRUE, !.pc[c] = "wait",
                             !.original[c] = originalClipboard /\ reads # {},
                             !.did = reads \cup {"open"}]
             ELSE [ws EXCEPT !.isRefreshing = FALSE, !.pc[c] = "no-openURL",
                             !.did = reads]

\* refreshWorkspace after the await, to its end: every return and the finally
\* block set isRefreshing to false
refreshWorkspaceResume(ws, c, clipboardData) ==
    IF "clipboardRead" \notin ws.permissions
    THEN [ws EXCEPT !.isRefreshing = FALSE, !.pc[c] = "no-clipboardRead", !.did = {}]
    ELSE IF clipboardData = "throws"
    THEN [ws EXCEPT !.isRefreshing = FALSE, !.pc[c] = "threw", !.did = {"read"}]
    ELSE LET writes == IF "clipboardWrite" \in ws.permissions /\ ws.original[c]
                       THEN {"write"} ELSE {}
         IN  IF clipboardData = "files"
             THEN [ws EXCEPT !.isRefreshing = FALSE, !.pc[c] = "success",
                             !.items = "files",
                             !.did = {"read", "items"} \cup writes]
             ELSE [ws EXCEPT !.isRefreshing = FALSE, !.pc[c] = clipboardData,
                             !.did = {"read", "alert"} \cup writes]

(***************************************************************************)
(* The outline as a state machine                                          *)
(***************************************************************************)
\* texts a row is given
Texts == {
    <<"#", "a", " ", "b">>,
    <<"a", " ", "#", "b", " ", "#", "a", "/", "b">>,
    <<"#", "a", "b">>,
    <<"a", "TAB", "#", "a">> }

\* the text of a row when the document is opened
FirstText == <<"#", "a", " ", "b">>

TagA == <<"#", "a">>
TagB == <<"#", "b">>
TagAB == <<"#", "a", "/", "b">>
TagAb == <<"#", "a", "b">>

\* tags asked for by the filter command and the sidebar
FilterTargets == {TagA, TagB, TagAB, TagAb}

\* values of (bt-tags, data-bt-tags) found on a row that the engine did not write
ForeignTags == {
    <<None, None>>,
    <<Some(<<>>), Some(JSONStringify(<<TagA>>))>>,
    <<Some(<<Tok("["), StrTok(TagA)>>), None>>,
    <<None, Some(JSONStringify(<<TagB, TagAB, TagA>>))>>,
    <<Some(JSONStringify(<<TagA>>)), Some(<<Tok("{"), Tok("}")>>)>>,
    <<Some(JSONStringify(<<>>)), Some(JSONStringify(<<>>))>>,
    <<Some(JSONStringify(<<TagAB>>)), Some(JSONStringify(<<TagAB>>))>>,
    <<Some(JSONStringify(<<TagAb>>)), Some(JSONStringify(<<TagAb>>))>>,
    <<Some(<<Tok("{"), Tok("}")>>), None>> }

BagOf(pair) ==
    [k \in AttrKeys |-> IF k = TAGS_ATTR_NEW THEN pair[1]
                        ELSE IF k = TAGS_ATTR_OLD THEN pair[2]
                        ELSE None]

Op(op, row, branch, target, calls, rerun, rerunCalls) ==
    [op |-> op, row |-> row, branch |-> branch, target |-> target,
     calls |-> calls, rerun |-> rerun, rerunCalls |-> rerunCalls]

Idle == Op("init", 0, "-", None, 0, FALSE, 0)

\* no selection yet; lastRowId and lastType undefined (0, "none")
ObserverInit ==
    [selection |-> None, pending |-> FALSE, lastRowId |-> 0, lastType |-> "none",
     owed |-> {}, invoked |-> {}]

\* no transaction is open
TxnInit == [open |-> FALSE, todo |-> <<>>]

\* the tag-set attributes (bt-tags, data-bt-tags) of every row
TagAttrs == [r \in Rows |-> <<attrs[r][TAGS_ATTR_NEW], attrs[r][TAGS_ATTR_OLD]>>]

\* "Populate sidebar immediately on load": the sidebar after updateSidebarTags
\* has run on the document as it is
SidebarNow(inBatch) ==
    [seen |-> TagAttrs, tags |-> updateSidebarTags([r \in Rows |-> RowOf(r)]).allTags,
     inBatch |-> inBatch]

\* no window is open when the extension is activated; the first retry is
\* scheduled
WindowsInit ==
    [open |-> {}, frontmost |-> 0, initializedWindows |-> {},
     setups |-> [w \in Windows |-> 0], outcome |-> [w \in Windows |-> "-"],
     attempts |-> 0, panel |-> [w \in Windows |-> PanelInit], policy |-> "kept"]

\* A flat outline without selection, after "Update on initial load": every
\* row is a child of the root (0), no row carries bullet-threading, the
\* closure variables are an empty set and null (0).
ThreadingInit ==
    [parent |-> [r \in ThreadIds |-> 0], selection |-> None, pending |-> FALSE,
     marked |-> {}, previousThreadingRowIds |-> {}, previousSelectedRowId |-> 0,
     branch |-> "cleared"]

\* the workspace extension activated with permissions P: no refresh yet
WorkspaceWith(P) ==
    [permissions |-> P, isRefreshing |-> FALSE, pc |-> [c \in Calls |-> "none"],
     original |-> [c \in Calls |-> FALSE], items |-> "none", did |-> {}]

WorkspaceInit == WorkspaceWith(Permissions)

\* the sidebar of a window whose editor has not been observed yet: no tag items
SidebarInit ==
    [seen |-> [r \in Rows |-> <<None, None>>], tags |-> {}, inBatch |-> FALSE]

\* outside the document: no transaction, no tag items in the sidebar, the
\* other extensions at rest
ShellInit ==
    /\ txn = TxnInit
    /\ sidebar = SidebarInit
    /\ windows = WindowsInit
    /\ threading = ThreadingInit
    /\ workspace = WorkspaceInit

InitDoc(pairs) ==
    /\ rowText = [r \in Rows |-> FirstText]
    /\ attrs \in [Rows -> {BagOf(p) : p \in pairs}]
    /\ markers = [r \in Rows |-> {}]
    /\ editorFilter = ""
    /\ applied = {}
    /\ observer = ObserverInit
    /\ last = Idle
    /\ input = <<>>
    /\ output = <<>>

\* a document with whatever tag attributes it was saved with
Init == InitDoc(ForeignTags) /\ ShellInit

\* a document without tag-set attributes
InitClean == InitDoc({<<None, None>>}) /\ ShellInit

\* length of the longest common prefix
CommonPrefix(a, b) ==
    LET n == IF Len(a) < Len(b) THEN Len(a) ELSE Len(b)
        D == {i \in 1..n : a[i] # b[i]}
    IN  IF D = {} THEN n ELSE Min(D) - 1

\* The user edits the text of row r into t: the characters after the common
\* prefix are deleted and the rest of t is typed.  Text attributes stay on the
\* characters that were not deleted; typed characters carry none.
EditText(r, t) ==
    /\ t # rowText[r]
    /\ rowText' = [rowText EXCEPT ![r] = t]
    /\ markers' = [markers EXCEPT
                     ![r] = {m \in @ : m.pos < CommonPrefix(rowText[r], t)}]
    /\ applied' = applied \ {r}
    /\ last' = Op("edit", r, "-", None, 0, FALSE, 0)
    /\ UNCHANGED <<attrs, editorFilter, observer, input, output, shell>>

\* the rows on which applyTagsToRow ran in the last operation
Processed ==
    IF last.op = "apply" THEN {last.row}
    ELSE IF last.op = "apply-all" THEN Rows
    ELSE IF last.op = "observe" THEN observer.invoked
    ELSE {}

\* applyTagsToRowId(outline, rowId), called by the selection observer
ApplyTagsToRowId(r) ==
    \E res \in {applyTagsToRow(RowOf(r))} :
    /\ attrs' = [attrs EXCEPT ![r] = res.attrs]
    /\ markers' = [markers EXCEPT ![r] = res.marks]
    /\ rowText' = [rowText EXCEPT ![r] = res.text]
    /\ applied' = applied \cup {r}
    /\ last' = Op("apply", r, res.branch, None, res.calls, r \in applied,
                  IF r \in applied THEN res.calls ELSE 0)
    /\ UNCHANGED <<editorFilter, observer, input, output, shell>>

RECURSIVE SumCalls(_, _)
SumCalls(res, S) ==
    IF S = {} THEN 0
    ELSE LET r == CHOOSE x \in S : TRUE IN res[r].calls + SumCalls(res, S \ {r})

\* outline.root.descendants as the command finds them
Outline == [r \in Rows |-> RowOf(r)]

\* applyTagsCommand(context) with an editor: one transaction over every row
ApplyTagsCommand ==
    \E cmd \in {applyTagsCommand([editor |-> TRUE], Outline)} :
    /\ attrs' = [r \in Rows |-> cmd.rows[r].attrs]
    /\ markers' = [r \in Rows |-> cmd.rows[r].marks]
    /\ rowText' = [r \in Rows |-> cmd.rows[r].text]
    /\ applied' = Rows
    /\ last' = Op("apply-all", 0, IF cmd.ret THEN "true" ELSE "false", None,
                  SumCalls(cmd.rows, Rows), applied # {}, SumCalls(cmd.rows, applied))
    /\ UNCHANGED <<editorFilter, observer, input, output, shell>>

\* editor.selection when a command runs
Selections ==
    {[row |-> r, type |-> "block", char |-> 0, headChar |-> 0] : r \in Rows}
    \cup UNION {{[row |-> r, type |-> "caret", char |-> i, headChar |-> 0],
                 [row |-> r, type |-> "text", char |-> 0, headChar |-> i]}
                : <<r, i>> \in {p \in Rows \X (0..9) : p[2] <= Len(rowText[p[1]])}}

\* the command run with a tag (as sidebar code may), and run from the keyboard
TagContexts ==
    {[editor |-> TRUE, tag |-> Some(t), selection |-> None] : t \in FilterTargets}

SelectionContexts ==
    {[editor |-> TRUE, tag |-> None, selection |-> s]
        : s \in {None} \cup {Some(x) : x \in Selections}}

\* the command without an editor, and with an empty tag
OtherContexts ==
    {[editor |-> FALSE, tag |-> None, selection |-> None],
     [editor |-> FALSE, tag |-> Some(TagA), selection |-> None],
     [editor |-> TRUE, tag |-> Some(<<>>), selection |-> None]}

CommandContexts == TagContexts \cup SelectionContexts \cup OtherContexts

FilterByTagCommand(context) ==
    \E res \in {filterByTagCommand(context)} :
    /\ attrs' = res.attrs
    /\ editorFilter' = res.filter
    /\ last' = Op("filter", 0, IF res.ret THEN "true" ELSE "false", res.target,
                  0, FALSE, 0)
    /\ UNCHANGED <<rowText, markers, applied, observer, input, output, shell>>

SidebarClick(nodeTag) ==
    \E res \in {sidebarAction(TRUE, nodeTag)} :
    /\ attrs' = res.attrs
    /\ editorFilter' = res.filter
    /\ last' = Op("sidebar", 0, "-", Some(nodeTag), 0, FALSE, 0)
    /\ UNCHANGED <<rowText, markers, applied, observer, input, output, shell>>

ClearFilterCommand ==
    \E res \in {clearFilterCommand([editor |-> TRUE])} :
    /\ attrs' = res.attrs
    /\ editorFilter' = res.filter
    /\ last' = Op("clear", 0, "-", None, 0, FALSE, 0)
    /\ UNCHANGED <<rowText, markers, applied, observer, input, output, shell>>

\* selections the editor can hold, as the observer reads them: row and type
ObserverSelections ==
    {[row |-> r, type |-> t, char |-> 0, headChar |-> 0]
        : r \in Rows, t \in {"caret", "text", "block"}}

\* the caret or a text selection is in a row and sel is in another row or is a
\* block selection
Leaves(sel) ==
    /\ observer.selection # None
    /\ observer.selection[1].type \in {"caret", "text"}
    /\ sel # None
    /\ sel[1].row # observer.selection[1].row \/ sel[1].type = "block"

\* the user changes editor.selection; the host owes the observer a notification
SelectionChange(sel) ==
    /\ sel # observer.selection
    /\ observer' = [observer EXCEPT
                       !.selection = sel,
                       !.pending = TRUE,
                       !.owed = IF Leaves(sel) THEN @ \cup {observer.selection[1].row}
                                ELSE @]
    /\ last' = Op("select", 0, "-", None, 0, FALSE, 0)
    /\ UNCHANGED <<rowText, attrs, markers, editorFilter, applied, input, output, shell>>

\* the debounced notification: the handler runs once with the selection the
\* editor holds now, whatever it held in between
ObserveSelection ==
    /\ observer.pending
    /\ \E res \in {observeSelection(Outline, observer.lastRowId, observer.lastType,
                                     observer.selection)} :
          /\ attrs' = [r \in Rows |-> res.rows[r].attrs]
          /\ markers' = [r \in Rows |-> res.rows[r].marks]
          /\ rowText' = [r \in Rows |-> res.rows[r].text]
          /\ applied' = applied \cup res.invoked
          /\ observer' = [observer EXCEPT
                             !.pending = FALSE,
                             !.lastRowId = res.lastRowId,
                             !.lastType = res.lastType,
                             !.owed = @ \ res.invoked,
                             !.invoked = res.invoked]
          /\ last' = Op("observe", 0, "-", None, SumCalls(res.rows, res.invoked),
                        res.invoked \cap applied # {},
                        SumCalls(res.rows, res.invoked \cap applied))
    /\ UNCHANGED <<editorFilter, input, output, shell>>

\* texts typed while the observer is watched: without and with a trailing tag
ObserverTexts == {FirstText, <<"#", "a", "b">>}

\* typing in the row that holds the caret or the text selection
EditAtCaret ==
    /\ observer.selection # None
    /\ observer.selection[1].type \in {"caret", "text"}
    /\ \E t \in ObserverTexts : EditText(observer.selection[1].row, t)

transactionNotOpened(order) == [open |-> FALSE, todo |-> order]

\* editor.transaction(options, callback) of applyTagsCommand: the transaction
\* is open while the callback visits the rows
transaction(order) == [open |-> TRUE, todo |-> order]

\* no command or handler of the extension is running
AtRest == txn = TxnInit

\* the apply-tags command is dispatched and enters its transaction
BeginApplyTags ==
    /\ AtRest
    /\ txn' = transaction(DocumentOrder)
    /\ last' = Op("begin", 0, "-", None, 0, FALSE, 0)
    /\ UNCHANGED <<rowText, attrs, markers, editorFilter, applied, observer, input,
                   output, sidebar, windows, threading, workspace>>

\* one turn of the loop of applyTagsCommand
ApplyNextRow ==
    /\ Len(txn.todo) > 0
    /\ \E rows \in {ApplyStep(Outline, Head(txn.todo))} :
          /\ attrs' = [r \in Rows |-> rows[r].attrs]
          /\ markers' = [r \in Rows |-> rows[r].marks]
          /\ rowText' = [r \in Rows |-> rows[r].text]
          /\ last' = Op("row", Head(txn.todo), rows[Head(txn.todo)].branch, None,
                        rows[Head(txn.todo)].calls, FALSE, 0)
    /\ applied' = applied \cup {Head(txn.todo)}
    /\ txn' = [txn EXCEPT !.todo = Tail(@)]
    /\ UNCHANGED <<editorFilter, observer, input, output, sidebar, windows,
                   threading, workspace>>

\* the loop is over: the transaction commits and the command returns true
CommitApplyTags ==
    /\ txn # TxnInit
    /\ Len(txn.todo) = 0
    /\ txn' = TxnInit
    /\ last' = Op("apply-all", 0, "true", None, 0, FALSE, 0)
    /\ UNCHANGED <<rowText, attrs, markers, editorFilter, applied, observer, input,
                   output, sidebar, windows, threading, workspace>>

\* the rows whose tag-set attributes are not the ones the sidebar last read
ChangedSinceRebuild == {r \in Rows : sidebar.seen[r] # TagAttrs[r]}

\* The callback of the two streamQuery subscriptions: updateSidebarTags().  The
\* host calls it when a tag-set attribute has changed and no transaction is
\* open; a change made outside a transaction is committed at once.
StreamQuery ==
    /\ ~txn.open
    /\ ChangedSinceRebuild # {}
    /\ sidebar' = SidebarNow(Len(txn.todo) \in 1..(NumRows - 1))
    /\ \E hierarchy \in {updateSidebarTags(Outline).hierarchy} :
          windows' = [windows EXCEPT
                        !.panel = [w \in Windows |->
                                     streamQuery(@[w], 1, hierarchy, windows.policy)]]
    /\ last' = Op("rebuild", 0, last.op, None, Cardinality(ChangedSinceRebuild), FALSE, 0)
    /\ UNCHANGED <<rowText, attrs, markers, editorFilter, applied, observer, input,
                   output, txn, threading, workspace>>

\* texts typed while the sidebar is watched
SidebarTexts == {FirstText, <<"#", "a", "b">>, <<"a", " ", "#", "b", " ", "#", "a", "/", "b">>}

\* edits, the updater run by the observer, the apply-tags command, and the
\* sidebar kept fresh
NextSidebar ==
    \/ \E r \in Rows, t \in SidebarTexts : AtRest /\ EditText(r, t)
    \/ \E r \in Rows : AtRest /\ ApplyTagsToRowId(r)
    \/ BeginApplyTags
    \/ ApplyNextRow
    \/ CommitApplyTags
    \/ StreamQuery

\* selection changes, typing, and the two kinds of notification of the host
NextObserver ==
    \/ \E sel \in {None} \cup {Some(x) : x \in ObserverSelections} : SelectionChange(sel)
    \/ ObserveSelection
    \/ EditAtCaret
    \/ StreamQuery

\* a callback of activate calls setupTagsSidebarOnce(w), or finds no window
SetupOnce(name, w) ==
    /\ \E outcome \in SetupOutcomes :
          windows' = setupTagsSidebarOnce(windows, w, outcome)
    /\ last' = Op(name, w, IF w \in windows.initializedWindows THEN "skipped" ELSE "setup",
                  None, 0, FALSE, 0)
    /\ UNCHANGED <<document, txn, sidebar, threading, workspace>>

NoWindow(name) ==
    /\ last' = Op(name, 0, "none", None, 0, FALSE, 0)
    /\ UNCHANGED <<document, shell>>

\* the host opens window w, which becomes the frontmost one
OpenWindow(w) ==
    /\ w \notin windows.open
    /\ windows' = [windows EXCEPT !.open = @ \cup {w}, !.frontmost = w]
    /\ last' = Op("open", w, "-", None, 0, FALSE, 0)
    /\ UNCHANGED <<document, txn, sidebar, threading, workspace>>

\* another window, or none, becomes the frontmost one
SwitchWindow(w) ==
    /\ w \in windows.open \cup {0}
    /\ w # windows.frontmost
    /\ windows' = [windows EXCEPT !.frontmost = w]
    /\ last' = Op("switch", w, "-", None, 0, FALSE, 0)
    /\ UNCHANGED <<document, txn, sidebar, threading, workspace>>

\* bike.observeWindows(callback): the callback with an open window
ObserveWindows(w) == w \in windows.open /\ SetupOnce("observeWindows", w)

\* bike.observeFrontmostWindow(callback): "if (!w) return"
ObserveFrontmostWindow ==
    IF windows.frontmost = 0 THEN NoWindow("observeFrontmostWindow")
    ELSE SetupOnce("observeFrontmostWindow", windows.frontmost)

\* the retry timer: runs while attempts < maxAttempts, every 300 ms
Retry ==
    /\ windows.attempts < maxAttempts
    /\ \E outcome \in SetupOutcomes :
          windows' = [(IF windows.frontmost = 0 THEN windows
                       ELSE setupTagsSidebarOnce(windows, windows.frontmost, outcome))
                      EXCEPT !.attempts = @ + 1]
    /\ last' = Op("retry", windows.frontmost,
                  IF windows.frontmost = 0 THEN "none"
                  ELSE IF windows.frontmost \in windows.initializedWindows THEN "skipped"
                  ELSE "setup", None, 0, FALSE, 0)
    /\ UNCHANGED <<document, txn, sidebar, threading, workspace>>

\* bike.observeFrontmostOutlineEditor(callback) of the sidebar setup
ObserveFrontmostOutlineEditor ==
    IF windows.frontmost = 0 THEN NoWindow("observeFrontmostOutlineEditor")
    ELSE SetupOnce("observeFrontmostOutlineEditor", windows.frontmost)

NextWindows ==
    \/ \E w \in Windows : OpenWindow(w)
    \/ \E w \in Windows \cup {0} : SwitchWindow(w)
    \/ \E w \in Windows : ObserveWindows(w)
    \/ ObserveFrontmostWindow
    \/ Retry
    \/ ObserveFrontmostOutlineEditor

\* selections of the threaded editor: a row and the caret's place in it
ThreadSelections == {[row |-> r, char |-> c] : r \in ThreadIds, c \in 0..1}

\* the user changes the selection; the host owes the observer a notification
ThreadSelect(sel) ==
    /\ sel # threading.selection
    /\ threading' = [threading EXCEPT !.selection = sel, !.pending = TRUE]
    /\ last' = Op("thread-select", 0, "-", None, 0, FALSE, 0)
    /\ UNCHANGED <<document, txn, sidebar, windows, workspace>>

\* the user moves row r under p (0: the root); p is not r and not below r
Reparent(r, p) ==
    /\ p # threading.parent[r]
    /\ r \notin buildAncestorChain(threading.parent, p)
    /\ threading' = [threading EXCEPT !.parent[r] = p]
    /\ last' = Op("reparent", r, "-", None, 0, FALSE, 0)
    /\ UNCHANGED <<document, txn, sidebar, windows, workspace>>

\* editor.observeSelection(callback, 0): the callback runs
\* updateThreadingAttributes on the selection the editor holds now
ThreadObserve ==
    /\ threading.pending
    /\ threading' = [updateThreadingAttributes(threading) EXCEPT !.pending = FALSE]
    /\ last' = Op("thread-observe", 0, "-", None, 0, FALSE, 0)
    /\ UNCHANGED <<document, txn, sidebar, windows, workspace>>

NextThreading ==
    \/ \E sel \in {None} \cup {Some(x) : x \in ThreadSelections} : ThreadSelect(sel)
    \/ \E r \in ThreadIds, p \in ThreadIds \cup {0} : Reparent(r, p)
    \/ ThreadObserve

\* refreshWorkspace(context) is called: by the observeDocuments callback, by
\* the action of the group header, by the workspace:refresh command
CallRefresh(origin) ==
    /\ \E c \in Calls, originalClipboard \in BOOLEAN :
          /\ workspace.pc[c] # "wait"
          /\ workspace' = refreshWorkspace(workspace, c, originalClipboard)
          /\ last' = Op(origin, c, "-", None, 0, FALSE, 0)
    /\ UNCHANGED <<document, txn, sidebar, windows, threading>>

DocumentOpened == CallRefresh("observeDocuments")

GroupHeaderClicked == CallRefresh("workspace:group")

RefreshCommand == CallRefresh("workspace:refresh")

\* the timeout of SHORTCUT_WAIT_TIME elapses for a call that awaits it
ShortcutWaitOver ==
    /\ \E c \in Calls, clipboardData \in ClipboardData :
          /\ workspace.pc[c] = "wait"
          /\ workspace' = refreshWorkspaceResume(workspace, c, clipboardData)
          /\ last' = Op("resume", c, "-", None, 0, FALSE, 0)
    /\ UNCHANGED <<document, txn, sidebar, windows, threading>>

NextWorkspace ==
    \/ DocumentOpened
    \/ GroupHeaderClicked
    \/ RefreshCommand
    \/ ShortcutWaitOver

\* edits and updater runs
NextTags ==
    \/ \E r \in Rows, t \in Texts : EditText(r, t)
    \/ \E r \in Rows : ApplyTagsToRowId(r)
    \/ ApplyTagsCommand

\* filtering
NextFilter ==
    \/ \E context \in TagContexts : FilterByTagCommand(context)
    \/ \E nodeTag \in FilterTargets : SidebarClick(nodeTag)
    \/ ClearFilterCommand

Next ==
    \/ \E r \in Rows, t \in Texts : EditText(r, t)
    \/ \E r \in Rows : ApplyTagsToRowId(r)
    \/ ApplyTagsCommand
    \/ \E context \in TagContexts : FilterByTagCommand(context)
    \/ \E nodeTag \in FilterTargets : SidebarClick(nodeTag)
    \/ ClearFilterCommand

(***************************************************************************)
(* The pure functions on their own: an argument is chosen, the function is *)
(* called on it once.                                                      *)
(***************************************************************************)
InitCall(arguments) ==
    /\ rowText = [r \in Rows |-> FirstText]
    /\ attrs = [r \in Rows |-> BagOf(<<None, None>>)]
    /\ markers = [r \in Rows |-> {}]
    /\ editorFilter = ""
    /\ applied = {}
    /\ observer = ObserverInit
    /\ last = Idle
    /\ input \in arguments
    /\ output = <<>>
    /\ ShellInit

Call(fn, result) ==
    /\ last.op = "init"
    /\ output' = result
    /\ last' = Op(fn, 0, "-", None, 0, FALSE, 0)
    /\ UNCHANGED <<rowText, attrs, markers, editorFilter, applied, observer, input, shell>>

CallFindTrailingTags == Call("findTrailingTags", findTrailingTags(input))

\* normalized tags of at most MaxDepth one-letter segments
RECURSIVE TagsOfDepth(_)
TagsOfDepth(d) ==
    IF d = 1 THEN {<<"#", c>> : c \in {"a", "b"}}
    ELSE {t \o <<"/", c>> : t \in TagsOfDepth(d - 1), c \in {"a", "b"}}

TagUniverse == UNION {TagsOfDepth(d) : d \in 1..MaxDepth}

RECURSIVE SetsUpTo(_)
SetsUpTo(n) ==
    IF n = 0 THEN {{}}
    ELSE LET smaller == SetsUpTo(n - 1)
         IN  smaller \cup {S \cup {t} : S \in smaller, t \in TagUniverse}

TagSets == SetsUpTo(MaxTags)

CallBuildTagHierarchy == Call("buildTagHierarchy", buildTagHierarchy(input))

CallNormalizeTag == Call("normalizeTag", normalizeTag(input))

CallAddAncestors == Call("addAncestors", addAncestors(normalizeTag(input)))

\* a tag whose accumulator ends at -2^31
MinIntTag == <<"#", "s", "y", "w", "f", "h", "t", "s">>

\* the strings hashed: the short ones, the same after "#-" (the accumulator
\* is negative for seven characters that begin so), and MinIntTag
HashInputs ==
    Str(MaxLen) \cup {<<"#", "-">> \o s : s \in Str(MaxLen)} \cup {MinIntTag}

\* the result with the accumulator it was folded from
CallStableIndexForTag ==
    Call("stableIndexForTag",
         [index |-> stableIndexForTag(input, COLOR_COUNT),
          hash |-> HashLoop(Int32Of(5381), input)])

\* normalizeTag and addAncestors on every string of at most MaxLen characters
SpecNormalizer ==
    InitCall(Str(MaxLen)) /\ [][CallNormalizeTag \/ CallAddAncestors]_vars

\* stableIndexForTag on every string of HashInputs
SpecColor == InitCall(HashInputs) /\ [][CallStableIndexForTag]_vars

\* findTrailingTags on every text of at most MaxLen characters
SpecTokenizer == InitCall(Str(MaxLen)) /\ [][CallFindTrailingTags]_vars

\* buildTagHierarchy on every set of at most MaxTags tags
SpecHierarchy == InitCall(TagSets) /\ [][CallBuildTagHierarchy]_vars

\* tag sets saved with the rows of the documents of SpecCommand
SavedTags == {
    <<None, None>>,
    <<None, Some(JSONStringify(<<TagB, TagAB, TagA>>))>>,
    <<Some(JSONStringify(<<TagAb>>)), Some(JSONStringify(<<TagAb>>))>> }

\* the texts of the documents of SpecCommand: Texts, and two tags after a
\* space at index 0
CommandTexts == Texts \cup {<<" ", "#", "a", " ", "#", "b">>}

\* a saved document with any of the texts on its rows
InitCommand ==
    /\ rowText \in [Rows -> CommandTexts]
    /\ attrs \in [Rows -> {BagOf(p) : p \in SavedTags}]
    /\ markers = [r \in Rows |-> {}]
    /\ editorFilter = ""
    /\ applied = {}
    /\ observer = ObserverInit
    /\ last = Idle
    /\ input = <<>>
    /\ output = <<>>
    /\ ShellInit

NextCommand ==
    \/ \E context \in CommandContexts : FilterByTagCommand(context)
    \/ ClearFilterCommand

\* the filter command in every context: with and without an editor, a tag, a
\* selection
SpecCommand == InitCommand /\ [][NextCommand]_vars

\* a new document: selection changes, typing at the caret, and the observer's
\* notifications, debounced
SpecObserver == InitClean /\ [][NextObserver]_vars

\* a new document: every sequence of edits, updater runs and filter commands
Spec == InitClean /\ [][Next]_vars

\* a saved document, edited and re-tagged
SpecSaved == Init /\ [][NextTags]_vars

\* a saved document, filtered
SpecFilter == Init /\ [][NextFilter]_vars

\* tag sets saved with the rows of the documents of SpecSidebar: none, one
\* under the legacy key only, one under the current key over a legacy value
\* that is no array, and a value that is no array alone
SidebarSaved == {
    <<None, None>>,
    <<None, Some(JSONStringify(<<TagB, TagAB, TagA>>))>>,
    <<Some(JSONStringify(<<TagA>>)), Some(<<Tok("{"), Tok("}")>>)>>,
    <<Some(<<Tok("{"), Tok("}")>>), None>> }

\* the document as opened, its sidebar populated from it
InitSidebar ==
    /\ InitDoc(SidebarSaved)
    /\ txn = TxnInit
    /\ sidebar = SidebarNow(FALSE)
    /\ windows = WindowsInit
    /\ threading = ThreadingInit
    /\ workspace = WorkspaceInit

\* the workspace extension activated with any of its permissions granted
InitWorkspace ==
    /\ InitDoc({<<None, None>>})
    /\ txn = TxnInit
    /\ sidebar = SidebarInit
    /\ windows = WindowsInit
    /\ threading = ThreadingInit
    /\ workspace \in {WorkspaceWith(P) : P \in SUBSET Permissions}

SpecWorkspace == InitWorkspace /\ [][NextWorkspace]_vars

\* the bullet-threading extension on an editor: selections, rows moved, and
\* the notifications
SpecThreading == InitClean /\ [][NextThreading]_vars

\* the callbacks that activate registers for the sidebar setup, in any order
SpecWindows == InitClean /\ [][NextWindows]_vars

\* a saved document, its sidebar populated, then edits, updater runs and the
\* notifications of the host
SpecSidebar == InitSidebar /\ [][NextSidebar]_vars

(***************************************************************************)
(* Properties of the tokenizer                                             *)
(***************************************************************************)
\* the words of s: maximal runs of characters that are not whitespace, [i, j)
WordSpans(s) ==
    {sp \in (0..Len(s)) \X (0..Len(s)) :
        /\ sp[1] < sp[2]
        /\ \A k \in sp[1]..(sp[2] - 1) : ~IsSpace(CharAt(s, k))
        /\ sp[1] = 0 \/ IsSpace(CharAt(s, sp[1] - 1))
        /\ sp[2] = Len(s) \/ IsSpace(CharAt(s, sp[2]))}

\* # followed by one or more '/'-separated non-empty groups of tag characters
IsTagWord(w) ==
    /\ Len(w) >= 2
    /\ w[1] = "#"
    /\ \A seg \in Range(Split(Tail(w))) :
          Len(seg) > 0 /\ \A c \in Range(seg) : IsTagChar(c)

\* the words of the maximal run of tag-form words that ends s
TrailingTagSpans(s) ==
    {sp \in WordSpans(s) :
        \A q \in WordSpans(s) : q[1] >= sp[1] => IsTagWord(Slice(s, q[1], q[2]))}

\* C4: findTrailingTags returns exactly the maximal run of whitespace-separated
\* tag-form words that ends the text, left to right, with strictly increasing,
\* non-overlapping spans inside the text.
C4_TrailingRun ==
    last.op = "findTrailingTags" =>
        LET run == TrailingTagSpans(input) IN
        /\ Len(output) = Cardinality(run)
        /\ \A i \in 1..Len(output) :
              \E sp \in run :
                 /\ Cardinality({q \in run : q[1] < sp[1]}) = i - 1
                 /\ output[i].tag = Slice(input, sp[1], sp[2])
        /\ \A i \in 1..Len(output) :
              /\ 0 <= output[i].start
              /\ output[i].start < output[i].end
              /\ output[i].end <= Len(input)
        /\ \A i \in 1..(Len(output) - 1) : output[i].end <= output[i + 1].start

\* two tokens returned, the second one after a tab
C4_Witness ==
    /\ last.op = "findTrailingTags"
    /\ Len(output) = 2
    /\ "TAB" \in Range(input)

\* C5: the substring of the row text at [start, end) of every returned token is
\* the token's tag text.
C5_SpanIsTagText ==
    last.op = "findTrailingTags" =>
        \A i \in 1..Len(output) :
            Slice(input, output[i].start, output[i].end) = output[i].tag

(***************************************************************************)
(* Properties of the updater                                               *)
(***************************************************************************)
TagKeys == {TAGS_ATTR_NEW, TAGS_ATTR_OLD}

\* the tag-set attribute of row r: the current key, else the legacy key
Stored(r) ==
    IF attrs[r][TAGS_ATTR_NEW] # None THEN attrs[r][TAGS_ATTR_NEW]
    ELSE attrs[r][TAGS_ATTR_OLD]

\* a value that decodes to an array of strings
WellFormed(opt) ==
    opt # None /\ JSONParse(opt[1]).ok /\ JSONParse(opt[1]).isArray

Decoded(opt) == JSONParse(opt[1]).items

HasTokens(r) == Len(findTrailingTags(rowText[r])) > 0

\* the tag itself and what is left of it before each of its '/'
AncestorChain(t) ==
    {SubSeq(t, 1, i) : i \in {j \in 2..Len(t) : j = Len(t) \/ t[j + 1] = "/"}}

\* the union of the ancestor chains of the normalized trailing tokens of text
ExpectedTags(text) ==
    UNION {AncestorChain(normalizeTag(tok.tag)) : tok \in Range(findTrailingTags(text))}

Ascending(arr) == \A i \in 1..(Len(arr) - 1) : StrLess(arr[i], arr[i + 1])

\* C1: applyTagsToRow run on a row and run again with no change of the row's
\* text in between makes no attribute set/remove and no text-marker add/remove
\* in the second run.
C1_SecondRunWritesNothing == last.rerun => last.rerunCalls = 0

\* a second run on a row to which the first run attached markers
C1_Witness ==
    /\ last.op = "apply"
    /\ last.rerun
    /\ HasTokens(last.row)
    /\ \E m \in markers[last.row] : m.name = "biketag"

\* C2: when the stored tag-set attribute of a row with trailing tokens decodes
\* to an array that, sorted, equals the candidate set, applyTagsToRow changes
\* neither the row's attributes nor its text markers.
C2_EqualSetNoChange ==
    [][\A r \in Rows :
          ( /\ (last'.op = "apply" /\ last'.row = r) \/ last'.op = "apply-all"
            /\ HasTokens(r)
            /\ WellFormed(Stored(r))
            /\ Len(Decoded(Stored(r))) = Cardinality(ExpectedTags(rowText[r]))
            /\ Range(Decoded(Stored(r))) = ExpectedTags(rowText[r]) )
          => attrs'[r] = attrs[r] /\ markers'[r] = markers[r]]_vars

\* the updater has left a row alone that holds its set unsorted, under the
\* legacy key only
C2_Witness ==
    /\ last.op = "apply"
    /\ last.branch = "equal"
    /\ attrs[last.row][TAGS_ATTR_NEW] = None
    /\ ~Ascending(Decoded(attrs[last.row][TAGS_ATTR_OLD]))

\* C3: after applyTagsToRow on a row with trailing tokens the tag-set attribute
\* decodes to an array of exactly the union of the ancestor chains of the
\* normalized trailing tokens; an array the call wrote is duplicate-free and
\* ascending, under both keys.
C3_DerivedTagSet ==
    \A r \in Processed :
        HasTokens(r) =>
            /\ WellFormed(Stored(r))
            /\ Range(Decoded(Stored(r))) = ExpectedTags(rowText[r])
            /\ Len(Decoded(Stored(r))) = Cardinality(ExpectedTags(rowText[r]))
            /\ last.branch = "applied" =>
                  \A k \in TagKeys :
                      /\ WellFormed(attrs[r][k])
                      /\ Ascending(Decoded(attrs[r][k]))
                      /\ Range(Decoded(attrs[r][k])) = ExpectedTags(rowText[r])

\* tokens #b and #a/b have given [#a, #a/b, #b]
C3_Witness ==
    /\ last.op = "apply"
    /\ last.branch = "applied"
    /\ rowText[last.row] = <<"a", " ", "#", "b", " ", "#", "a", "/", "b">>
    /\ attrs[last.row][TAGS_ATTR_NEW] = Some(JSONStringify(<<TagA, TagAB, TagB>>))

\* the tag without its last '/segment'
DropLastSegment(t) ==
    LET S == {i \in 1..Len(t) : t[i] = "/"}
    IN  SubSeq(t, 1, (CHOOSE i \in S : \A j \in S : j <= i) - 1)

\* C6: from a document without tag-set attributes, every persisted tag set is
\* ancestor-closed.
C6_AncestorClosed ==
    \A r \in Rows : \A k \in TagKeys :
        attrs[r][k] # None =>
            /\ WellFormed(attrs[r][k])
            /\ \A t \in Range(Decoded(attrs[r][k])) :
                  "/" \in Range(t) => DropLastSegment(t) \in Range(Decoded(attrs[r][k]))

\* a row holds a hierarchical tag and its parent
C6_Witness ==
    \E r \in Rows :
        /\ WellFormed(attrs[r][TAGS_ATTR_NEW])
        /\ TagAB \in Range(Decoded(attrs[r][TAGS_ATTR_NEW]))
        /\ TagA \in Range(Decoded(attrs[r][TAGS_ATTR_NEW]))

\* C10: after applyTagsToRow on a row without trailing tokens the row has no
\* tag-set attribute under either key.
C10_NoTokensNoAttribute ==
    \A r \in Processed :
        ~HasTokens(r) =>
            attrs[r][TAGS_ATTR_NEW] = None /\ attrs[r][TAGS_ATTR_OLD] = None

(***************************************************************************)
(* Properties of the filter                                                *)
(***************************************************************************)
Marked(r) ==
    /\ attrs[r][FILTER_ATTR_NEW] = Some(FilterOn)
    /\ attrs[r][FILTER_ATTR_OLD] = Some(FilterOn)

Unmarked(r) ==
    /\ attrs[r][FILTER_ATTR_NEW] = None
    /\ attrs[r][FILTER_ATTR_OLD] = None

\* x is target, or target followed by "/" and more
AtOrBelow(x, target) ==
    \/ x = target
    \/ /\ Len(x) >= Len(target) + 1
       /\ \A i \in 1..Len(target) : x[i] = target[i]
       /\ x[Len(target) + 1] = "/"

\* the persisted tag set of row r holds target or a descendant of it
HoldsTag(r, target) ==
    /\ WellFormed(Stored(r))
    /\ \E x \in Range(Decoded(Stored(r))) : AtOrBelow(x, target)

\* C7: after filter-by-tag with target T the filter marker is on a row, "1"
\* under both keys, iff the row's persisted tag set holds T or a tag that
\* starts with T + "/"; every other row has it under neither key.
C7_FilterMarksMatches ==
    (last.op = "filter" /\ last.branch = "true") =>
        \A r \in Rows :
            IF HoldsTag(r, last.target[1]) THEN Marked(r) ELSE Unmarked(r)

\* filtering by #a has marked a row and left a row tagged #ab unmarked
C7_Witness ==
    /\ last.op = "filter"
    /\ last.target = Some(TagA)
    /\ \E r \in Rows : Marked(r)
    /\ \E r \in Rows :
          /\ Unmarked(r)
          /\ WellFormed(Stored(r))
          /\ TagAb \in Range(Decoded(Stored(r)))

\* C9: clicking the sidebar node of T and running filter-by-tag with target T
\* leave the same rows marked under both keys and the same editor filter.
C9_SidebarEqualsCommand ==
    \A T \in FilterTargets :
        LET byCommand == filterByTagCommand(
                [editor |-> TRUE, tag |-> Some(T), selection |-> None])
            bySidebar == sidebarAction(TRUE, T)
        IN  /\ byCommand.attrs = bySidebar.attrs
            /\ byCommand.filter = bySidebar.filter

\* a click has marked a row and unmarked another
C9_Witness ==
    /\ last.op = "sidebar"
    /\ \E r \in Rows : Marked(r)
    /\ \E r \in Rows : Unmarked(r)

(***************************************************************************)
(* Properties of the hierarchy                                             *)
(***************************************************************************)
\* the root-to-node paths of a forest, as the tags of their nodes
RECURSIVE PathsOfLength(_, _)
PathsOfLength(forest, n) ==
    IF n = 1 THEN {<<t>> : t \in Range(forest.rootNodes)}
    ELSE UNION {{Append(p, c) : c \in Range(forest.nodeMap[p[Len(p)]])}
                : p \in PathsOfLength(forest, n - 1)}

RootPaths(forest) == UNION {PathsOfLength(forest, n) : n \in 1..(MaxDepth + 1)}

\* C8: every tag given to buildTagHierarchy is reached from the root list by
\* exactly one root-to-node path, whose tags are addAncestors(tag) in order.
C8_OnePathPerTag ==
    last.op = "buildTagHierarchy" =>
        \A t \in input :
            LET to == {p \in RootPaths(output) : p[Len(p)] = t}
            IN  to = {addAncestors(t)}

(***************************************************************************)
(* Properties of the updater on rows without trailing tokens               *)
(***************************************************************************)
\* applyTagsToRow ran on row r in the step
AppliedInStep(r) ==
    \/ last'.op = "apply" /\ last'.row = r
    \/ last'.op = "apply-all"

\* C11: when applyTagsToRow runs on a row that has no trailing token and
\* carries a tag-set attribute, the row has no biketag and no bt-color-k
\* marker on return.
C11_NoTokensNoMarkers ==
    [][\A r \in Rows :
          ( /\ AppliedInStep(r)
            /\ ~HasTokens(r)
            /\ \E k \in TagKeys : attrs[r][k] # None )
          => markers'[r] = {}]_vars

(***************************************************************************)
(* Properties of the normalizer and the ancestor expander                  *)
(***************************************************************************)
\* every run of "/" of t replaced by one "/"
RECURSIVE CollapseSlashes(_)
CollapseSlashes(t) ==
    IF Len(t) < 2 THEN t
    ELSE IF t[1] = "/" /\ t[2] = "/" THEN CollapseSlashes(Tail(t))
    ELSE <<t[1]>> \o CollapseSlashes(Tail(t))

\* t with a "#" before it when it has none
WithHash(t) == IF Len(t) > 0 /\ t[1] = "#" THEN t ELSE <<"#">> \o t

NoAdjacentSlashes(t) == \A i \in 1..(Len(t) - 1) : ~(t[i] = "/" /\ t[i + 1] = "/")

\* C12: normalizeTag returns the trimmed input, "#" prepended when it lacked
\* one, every run of "/" replaced by a single "/": the result starts with "#"
\* and has no two adjacent "/".
C12_EverySlashRunCollapsed ==
    last.op = "normalizeTag" =>
        /\ output = CollapseSlashes(WithHash(Trim(input)))
        /\ output[1] = "#"
        /\ NoAdjacentSlashes(output)

\* lengths of the prefix paths of full: the whole of it, and every prefix that
\* ends just before a "/"
PrefixLengths(full) ==
    {i \in 1..Len(full) : i = Len(full) \/ full[i + 1] = "/"}

\* C13: addAncestors(normalizeTag(t)) lists the n prefix paths of the
\* n-segment normalized tag from shallow to deep: the last element is
\* normalizeTag(t), every proper prefix path precedes it, and a one-segment tag
\* expands to itself only.
C13_PrefixPathsShallowToDeep ==
    last.op = "addAncestors" =>
        LET full == normalizeTag(input) IN
        /\ Len(output) = Cardinality(PrefixLengths(full))
        /\ output[Len(output)] = full
        /\ \A k \in 1..Len(output) :
              /\ Len(output[k]) \in PrefixLengths(full)
              /\ output[k] = SubSeq(full, 1, Len(output[k]))
              /\ k > 1 => Len(output[k - 1]) < Len(output[k])
        /\ "/" \notin Range(full) => output = <<full>>

\* a tag of three segments has expanded to three paths
C13_Witness ==
    /\ last.op = "addAncestors"
    /\ input = <<"a", "/", "-", "/", "a">>
    /\ output = << <<"#", "a">>, <<"#", "a", "/", "-">>,
                   <<"#", "a", "/", "-", "/", "a">> >>

(***************************************************************************)
(* Properties of the colour slot                                           *)
(***************************************************************************)
\* h * 33 + code on 32 bits, by multiplication
Times33Plus(h, code) ==
    LET l == h.lo * 33 + code IN
    [hi |-> (h.hi * 33 + l \div Half) % Half, lo |-> l % Half]

RECURSIVE ReferenceHash(_, _)
ReferenceHash(h, rest) ==
    IF Len(rest) = 0 THEN h
    ELSE ReferenceHash(Times33Plus(h, CharCode(rest[1])), Tail(rest))

\* |h| mod 8 for the signed value of h: 2^32 is a multiple of 8
ReferenceSlot(h) ==
    IF h.hi >= 32768 THEN (8 - (h.lo % 8)) % 8 ELSE h.lo % 8

\* C14: stableIndexForTag(tag, 8) is |h| mod 8 for h from 5381 by
\* h := (h * 33 + charCode) wrapped to signed 32 bits; the shift-and-add form
\* gives the same accumulator, and the result is in 0..7 also for a negative
\* accumulator and for -2^31.
C14_HashSlot ==
    last.op = "stableIndexForTag" =>
        /\ output.hash = ReferenceHash(Int32Of(5381), input)
        /\ output.index = ReferenceSlot(ReferenceHash(Int32Of(5381), input))
        /\ output.index \in 0..7

\* the accumulator -2^31 was folded
C14_Witness ==
    /\ last.op = "stableIndexForTag"
    /\ input = MinIntTag
    /\ output.hash = [hi |-> 32768, lo |-> 0]
    /\ output.index = 0

(***************************************************************************)
(* Frame of the updater                                                    *)
(***************************************************************************)
FilterKeys == {FILTER_ATTR_NEW, FILTER_ATTR_OLD}

\* C15: a call applyTagsToRow(r) leaves r's text and r's filter attributes as
\* they were, and leaves the text, the attributes and the markers of every
\* other row as they were.
C15_UpdaterFrame ==
    [][\A r \in Rows :
          AppliedInStep(r) =>
              /\ rowText'[r] = rowText[r]
              /\ \A k \in FilterKeys : attrs'[r][k] = attrs[r][k]
              /\ last'.op = "apply" =>
                    \A q \in Rows \ {r} :
                        /\ rowText'[q] = rowText[q]
                        /\ attrs'[q] = attrs[q]
                        /\ markers'[q] = markers[q]]_vars

\* the updater has written the set and the markers of a row that carries the
\* filter marker, next to a row that has its own set and markers
C15_Witness ==
    /\ last.op = "apply"
    /\ last.branch = "applied"
    /\ Marked(last.row)
    /\ \E q \in Rows \ {last.row} :
          /\ markers[q] # {}
          /\ attrs[q][TAGS_ATTR_NEW] # None
          /\ rowText[q] # rowText[last.row]

(***************************************************************************)
(* The apply-tags command on malformed data                                *)
(***************************************************************************)
\* a value that is present and does not decode to an array of strings
Malformed(opt) == opt # None /\ ~WellFormed(opt)

\* opt is the freshly derived set of text, as JSON.stringify writes it
FreshSet(opt, text) ==
    /\ WellFormed(opt)
    /\ Ascending(Decoded(opt))
    /\ Range(Decoded(opt)) = ExpectedTags(text)
    /\ opt = Some(JSONStringify(Decoded(opt)))

\* the outline with the tag-set attribute of row r replaced by w under both keys
OutlineWith(r, w) ==
    [Outline EXCEPT ![r].attrs = [@ EXCEPT ![TAGS_ATTR_NEW] = w, ![TAGS_ATTR_OLD] = w]]

\* well-formed data a row may hold instead
WellFormedValues == {None, Some(JSONStringify(<<TagA>>)), Some(JSONStringify(<<>>))}

\* what the command does, in the step, about row r whose attribute is malformed
MalformedRowHandled(r) ==
    /\ last'.branch = "true"
    /\ HasTokens(r) => \A k \in TagKeys : FreshSet(attrs'[r][k], rowText[r])
    /\ ~HasTokens(r) => \A k \in TagKeys : attrs'[r][k] = None
    /\ \A q \in Rows \ {r} : \A w \in WellFormedValues :
          LET row == applyTagsCommand([editor |-> TRUE], OutlineWith(r, w)).rows[q]
          IN  /\ attrs'[q] = row.attrs
              /\ markers'[q] = row.marks
              /\ rowText'[q] = row.text

\* C16: when the apply-tags command runs over an outline in which a row's
\* tag-set attribute is not valid JSON or is no array of strings, it returns
\* true, that row's attribute is replaced by the freshly derived set (removed
\* when the row has no trailing token), and every other row ends as it would
\* have with well-formed data on that row.
C16_MalformedRowIsolated ==
    [][last'.op = "apply-all" =>
          \A r \in Rows : Malformed(Stored(r)) => MalformedRowHandled(r)]_vars

\* the same for every malformed value but the empty string
C16_ExceptEmptyValue ==
    [][last'.op = "apply-all" =>
          \A r \in Rows :
              (Malformed(Stored(r)) /\ Stored(r) # Some(<<>>)) => MalformedRowHandled(r)]_vars

(***************************************************************************)
(* The filter command without a target                                     *)
(***************************************************************************)
\* there is no editor, or no tag was passed and there is no selection, or no
\* tag was passed and the selected row has no trailing tag (the caret is then
\* on no tag)
NoTarget(context) ==
    \/ ~context.editor
    \/ /\ context.tag \in {None, Some(<<>>)}
       /\ \/ context.selection = None
          \/ ~HasTokens(context.selection[1].row)

\* the command has returned false and its outcome is the outline as it was
NothingDone(res) ==
    /\ res.ret = FALSE
    /\ res.attrs = attrs
    /\ res.filter = editorFilter

\* C17: the filter-by-tag command returns false and leaves every row's filter
\* markers and the editor's filter expression unchanged when there is no
\* editor, no tag and no selection, or no target to resolve.
C17_NoTargetReturnsFalse ==
    /\ [](\A context \in CommandContexts :
             NoTarget(context) => NothingDone(filterByTagCommand(context)))
    /\ [][(last'.op = "filter" /\ last'.branch = "false") =>
             /\ attrs' = attrs
             /\ editorFilter' = editorFilter
             /\ markers' = markers
             /\ rowText' = rowText]_vars

\* the command has returned false on an outline that an earlier run filtered
C17_Witness ==
    /\ last.op = "filter"
    /\ last.branch = "false"
    /\ editorFilter = "//@bt-filter"
    /\ \E r \in Rows : Marked(r)
    /\ \E r \in Rows : Unmarked(r) /\ ~HasTokens(r)

C19_LeftRowEventuallyApplied ==
    ~observer.pending => observer.owed = {}

(***************************************************************************)
(* Mirroring of the current and the legacy keys                            *)
(***************************************************************************)
\* C20: from a document whose rows carry none of the four attributes, after
\* any sequence of edits, updater runs and commands, every row has bt-tags and
\* data-bt-tags both absent or both present with the same value, and bt-filter
\* and data-bt-filter likewise.
C20_KeysMirrored ==
    \A r \in Rows :
        /\ attrs[r][TAGS_ATTR_NEW] = attrs[r][TAGS_ATTR_OLD]
        /\ attrs[r][FILTER_ATTR_NEW] = attrs[r][FILTER_ATTR_OLD]

\* a row holds its tag set and the filter marker under all four keys, another
\* row has lost its filter marker and its tag set
C20_Witness ==
    /\ \E r \in Rows :
          /\ attrs[r][TAGS_ATTR_NEW] # None
          /\ attrs[r][TAGS_ATTR_OLD] # None
          /\ attrs[r][FILTER_ATTR_NEW] = Some(FilterOn)
          /\ attrs[r][FILTER_ATTR_OLD] = Some(FilterOn)
    /\ \E r \in Rows :
          /\ \A k \in AttrKeys : attrs[r][k] = None
          /\ last.op = "apply"
          /\ last.row = r
          /\ last.branch = "removed"

(***************************************************************************)
(* The target of the filter command run from the keyboard                  *)
(***************************************************************************)
\* the trailing tag words of row r as <<start, end>>, half open
TokenSpans(r) == TrailingTagSpans(rowText[r])

\* the normalized tag of the trailing token of row r on whose span (or at
\* whose end) the caret index is; without one, or for a block selection, the
\* normalized last trailing token; None on a row without trailing tokens
ExpectedTarget(selection) ==
    LET r == selection.row
        spans == TokenSpans(r)
        index == caretCharIndex(selection)
        at == IF index = None THEN {}
              ELSE {sp \in spans : sp[1] <= index[1] /\ index[1] <= sp[2]}
        lastSpan == CHOOSE sp \in spans : \A q \in spans : q[1] <= sp[1]
        chosen == IF at # {} THEN CHOOSE sp \in at : TRUE ELSE lastSpan
    IN  IF spans = {} THEN None
        ELSE Some(normalizeTag(Slice(rowText[r], chosen[1], chosen[2])))

KeyboardContext(selection) ==
    [editor |-> TRUE, tag |-> None, selection |-> Some(selection)]

\* C22: run without an explicit tag, the filter command takes as target the
\* normalized tag of the trailing token whose span contains the caret index or
\* whose end equals it; with the caret on no trailing token, or with a block
\* selection, the normalized last trailing token of the selected row.
C22_TargetAtCaret ==
    \A selection \in Selections :
        filterByTagCommand(KeyboardContext(selection)).target
            = ExpectedTarget(selection)

\* supporting check: the claim holds on every row whose token spans
\* findTrailingTags reports as they are in the text
C22_HoldsWithTrueSpans ==
    \A selection \in Selections :
        (\A i \in 1..Len(findTrailingTags(rowText[selection.row])) :
            LET t == findTrailingTags(rowText[selection.row])[i] IN
            <<t.start, t.end>> \in TokenSpans(selection.row))
        => filterByTagCommand(KeyboardContext(selection)).target
              = ExpectedTarget(selection)

(***************************************************************************)
(* Shape of the hierarchy                                                  *)
(***************************************************************************)
\* no element twice
NoDuplicates(seq) == \A i, j \in 1..Len(seq) : seq[i] = seq[j] => i = j

\* child = parent, "/", one segment
OneSegmentBelow(child, parent) ==
    /\ Len(child) > Len(parent) + 1
    /\ Slice(child, 0, Len(parent)) = parent
    /\ child[Len(parent) + 1] = "/"
    /\ "/" \notin Range(Slice(child, Len(parent) + 1, Len(child)))

\* C23: in the forest buildTagHierarchy returns, each child's tag is its
\* parent's tag, "/" and one further segment, so the parent has strictly fewer
\* segments; no node is twice in a children list or in the root list; no node
\* is a child of two parents.
C23_ForestShape ==
    last.op = "buildTagHierarchy" =>
        LET nodes == DOMAIN output.nodeMap IN
        /\ NoDuplicates(output.rootNodes)
        /\ \A p \in nodes :
              /\ NoDuplicates(output.nodeMap[p])
              /\ \A c \in Range(output.nodeMap[p]) :
                    /\ c \in nodes
                    /\ OneSegmentBelow(c, p)
                    /\ Depth(p) < Depth(c)
        /\ \A p, q \in nodes :
              Range(output.nodeMap[p]) \cap Range(output.nodeMap[q]) # {} => p = q

\* a forest with one root that has two children, one of them with a child
C23_Witness ==
    /\ last.op = "buildTagHierarchy"
    /\ Len(output.rootNodes) = 1
    /\ \E p \in Range(output.rootNodes) :
          /\ Len(output.nodeMap[p]) = 2
          /\ \E c \in Range(output.nodeMap[p]) : Len(output.nodeMap[c]) = 1

(***************************************************************************)
(* Markers after an update                                                 *)
(***************************************************************************)
\* a biketag marker and the colour marker of the tag on every character of
\* every trailing tag word of text
ExpectedMarks(text) ==
    UNION {
        LET k == stableIndexForTag(normalizeTag(Slice(text, sp[1], sp[2])), COLOR_COUNT)
        IN  {[name |-> n, pos |-> p] : n \in {"biketag", ColorAttr(k)},
                                        p \in sp[1]..(sp[2] - 1)}
        : sp \in TrailingTagSpans(text)}

\* findTrailingTags reports every token of text where it is
SpansAreTrue(text) ==
    \A i \in 1..Len(findTrailingTags(text)) :
        LET t == findTrailingTags(text)[i] IN <<t.start, t.end>> \in TrailingTagSpans(text)

\* C24: when applyTagsToRow mutates a row, on return the biketag marker is on
\* exactly the spans of the current trailing tokens, each token span carries
\* exactly the colour marker bt-color-k, k = stableIndexForTag(normalizeTag(token), 8),
\* and no biketag or bt-color marker is anywhere else on the row.
C24_MarkersOnTokenSpans ==
    \A r \in Rows :
        \E res \in {applyTagsToRow(RowOf(r))} :
            res.branch = "applied" => res.marks = ExpectedMarks(rowText[r])

\* supporting check: the claim holds for every row whose tokens are reported
\* where they are
C24_HoldsWithTrueSpans ==
    \A r \in Rows :
        \E res \in {applyTagsToRow(RowOf(r))} :
            (res.branch = "applied" /\ SpansAreTrue(rowText[r]))
                => res.marks = ExpectedMarks(rowText[r])

(***************************************************************************)
(* Order of the row updates                                                *)
(***************************************************************************)
\* every order in which the rows can be taken
Orders == {o \in [1..NumRows -> Rows] : \A i, j \in 1..NumRows : o[i] = o[j] => i = j}

\* text, attributes and markers of every row
DocumentOf(outline) ==
    [r \in Rows |-> [text |-> outline[r].text, attrs |-> outline[r].attrs,
                     marks |-> outline[r].marks]]

\* C25: applying applyTagsToRow to the rows in any order leaves the same
\* attributes and markers on every row as applying it in document order (which
\* the apply-tags command does), and the updates of two different rows commute.
C25_OrderIndependent ==
    /\ [](\A r, q \in Rows :
             r # q => ApplyStep(ApplyStep(Outline, r), q)
                         = ApplyStep(ApplyStep(Outline, q), r))
    /\ [][last'.op = "apply-all" =>
             \A order \in Orders :
                 DocumentOf(ApplyInOrder(order, Outline))
                     = [r \in Rows |-> [text |-> rowText'[r], attrs |-> attrs'[r],
                                        marks |-> markers'[r]]]]_vars

\* the command has written to an outline of two rows with different texts,
\* both with trailing tokens and markers
C25_Witness ==
    /\ last.op = "apply-all"
    /\ last.calls > 0
    /\ rowText[1] # rowText[2]
    /\ \A r \in Rows : HasTokens(r) /\ markers[r] # {}

(***************************************************************************)
(* The sidebar's tag index                                                 *)
(***************************************************************************)
\* the tags of the well-formed tag-set attributes, each row's read as the
\* updater and the filter read it
ExpectedIndex ==
    UNION {Range(Decoded(Stored(r))) : r \in {q \in Rows : WellFormed(Stored(q))}}

\* C27: indexAllTags returns the set of the tags that are in the well-formed
\* tag-set attribute of some row, the attribute being the value under the
\* current key or else under the legacy key; a row with a malformed attribute
\* adds nothing and keeps no other row's tags out.
C27_IndexOfStoredSets == indexAllTags(Outline) = ExpectedIndex

\* supporting check: the claim holds when for every row the value the updater
\* reads is the value under the legacy key
C27_HoldsWhenKeysAgree ==
    (\A r \in Rows : Stored(r) = attrs[r][TAGS_ATTR_OLD])
        => indexAllTags(Outline) = ExpectedIndex

(***************************************************************************)
(* The sidebar and the apply-tags transaction                              *)
(***************************************************************************)
\* C21: a sidebar rebuild (indexAllTags, then buildTagHierarchy) never reads
\* the document while the loop of the apply-tags command has visited some rows
\* and not yet the others: what it reads is the state before the command's
\* transaction or the state after its commit.
C21_RebuildOutsideBatch ==
    /\ [](last.op = "rebuild" => ~sidebar.inBatch)
    /\ [][last'.op = "rebuild" => (AtRest /\ sidebar'.seen = TagAttrs)]_vars

\* a rebuild has followed the commit of a command that changed the tag sets
\* of both rows
C21_Witness ==
    /\ last.op = "rebuild"
    /\ last.branch = "apply-all"
    /\ last.calls = NumRows
    /\ sidebar.tags # {}

(***************************************************************************)
(* Notifications that do not run the updater                               *)
(***************************************************************************)
\* the notification handled in the step finds the user where the observer
\* last saw the caret or a text selection, or the observer's last recorded
\* type is block or not yet set, or there is no selection
StaysInRow ==
    \/ observer.selection = None
    \/ observer.lastType \in {"block", "none"}
    \/ /\ observer.selection[1].row = observer.lastRowId
       /\ observer.selection[1].type \in {"caret", "text"}

\* nothing of the document is written in the step
DocumentUntouched ==
    /\ attrs' = attrs
    /\ markers' = markers
    /\ rowText' = rowText
    /\ applied' = applied

\* C26: applyTagsToRow is invoked zero times by a selection notification with
\* a caret or text selection on the row last recorded, by one that arrives
\* while the last recorded type is block or not yet set, by one with no
\* selection, and by a document-content change notification.
C26_NoUpdateWhileInRow ==
    [][ /\ (last'.op = "observe" /\ StaysInRow)
            => (observer'.invoked = {} /\ last'.calls = 0 /\ DocumentUntouched)
        /\ last'.op = "rebuild" => DocumentUntouched ]_vars

\* the observer has handled a notification about the row it last saw the caret
\* in, whose text was typed meanwhile and has a trailing tag, and has left the
\* row without tag set
C26_Witness ==
    /\ last.op = "observe"
    /\ observer.invoked = {}
    /\ observer.lastType \in {"caret", "text"}
    /\ HasTokens(observer.lastRowId)
    /\ Stored(observer.lastRowId) = None
    /\ \E r \in Rows : Stored(r) # None /\ sidebar.seen[r] = TagAttrs[r]

(***************************************************************************)
(* Sidebar setup runs once                                                 *)
(***************************************************************************)
\* C28: however the observeWindows, frontmost-window, retry-timer and
\* frontmost-editor callbacks follow each other, setupTagsSidebar is run
\* through setupTagsSidebarOnce at most once for each window, also when its
\* first run for the window threw or returned because the window had no
\* sidebar; the retry timer runs at most maxAttempts times.
C28_SetupOncePerWindow ==
    /\ \A w \in Windows : windows.setups[w] <= 1
    /\ windows.attempts <= maxAttempts

\* every retry is spent, and a callback has just found a window initialized
\* whose only setup threw or found no sidebar
C28_Witness ==
    /\ windows.attempts = maxAttempts
    /\ last.branch = "skipped"
    /\ last.row \in Windows
    /\ windows.outcome[last.row] \in {"threw", "no-sidebar"}
    /\ windows.setups[last.row] = 1

(***************************************************************************)
(* Bullet threading                                                        *)
(***************************************************************************)
\* the notification just handled left the attribute on the selected row and
\* its ancestors below the root and on no other row, or on no row when there
\* is no selection
ThreadingExact ==
    IF threading.selection = None THEN threading.marked = {}
    ELSE threading.marked
            = buildAncestorChain(threading.parent, threading.selection[1].row)

\* C29: after each handled selection notification the rows that carry
\* bullet-threading are exactly the selected row and its ancestors below the
\* outline root, whatever selections and moves of rows came before; after a
\* notification with no selection no row carries the attribute.
C29_ThreadOnSelectionPath == last.op = "thread-observe" => ThreadingExact

\* supporting check: the claim holds after every notification that finds no
\* selection or another row selected than the one recorded
C29_HoldsWhenRowChanged ==
    /\ threading.marked = threading.previousThreadingRowIds
    /\ (last.op = "thread-observe" /\ threading.branch # "same-row") => ThreadingExact

(***************************************************************************)
(* Workspace refresh                                                       *)
(***************************************************************************)
RefreshOrigins == {"observeDocuments", "workspace:group", "workspace:refresh"}

\* C30: at most one refreshWorkspace execution is past the isRefreshing check
\* at a time; a call that arrives while one is in progress returns without
\* opening the shortcut URL, reading or writing the clipboard or touching
\* sidebar items; isRefreshing is false once the call in progress has ended,
\* on every path.
C30_OneRefreshAtATime ==
    /\ [](/\ Cardinality(InProgress(workspace)) <= 1
          /\ workspace.isRefreshing = (InProgress(workspace) # {}))
    /\ [][(last'.op \in RefreshOrigins /\ InProgress(workspace) # {})
             => /\ workspace'.pc[last'.row] = "skipped"
                /\ workspace'.did = {}
                /\ workspace'.items = workspace.items
                /\ InProgress(workspace') = InProgress(workspace)]_vars

\* a call was skipped while another awaited the shortcut, and that one has
\* ended without a parsable clipboard
C30_Witness ==
    /\ last.op = "resume"
    /\ workspace.pc[last.row] = "unparsable"
    /\ \E c \in Calls : workspace.pc[c] = "skipped"
    /\ \E c \in Calls : workspace.pc[c] = "no-clipboardRead" \/ workspace.pc[c] = "empty"
    /\ ~workspace.isRefreshing

(***************************************************************************)
(* Tokens under the normalizer                                             *)
(***************************************************************************)
\* the "/"-separated segments of a tag text after its leading "#"
Segments(tag) == Split(Slice(tag, 1, Len(tag)))

\* one leading "#", no other "#", no empty segment
CanonicalTag(tag) ==
    /\ Len(tag) >= 2
    /\ tag[1] = "#"
    /\ \A i \in 2..Len(tag) : tag[i] # "#"
    /\ \A i \in 1..Len(Segments(tag)) : Segments(tag)[i] # <<>>

\* C35: normalizeTag is the identity on every tag text findTrailingTags
\* returns: for every row text and every returned token,
\* normalizeTag(token.tag) = token.tag, and the tag starts with exactly one
\* "#" and has no empty segment.
C35_NormalizeTagFixesTokens ==
    last.op = "findTrailingTags" =>
        \A i \in 1..Len(output) :
            /\ normalizeTag(output[i].tag) = output[i].tag
            /\ CanonicalTag(output[i].tag)

\* a text whose token has a "/" in it and does not start the text
C35_Witness ==
    /\ last.op = "findTrailingTags"
    /\ \E i \in 1..Len(output) :
          /\ Len(Segments(output[i].tag)) = 2
          /\ Len(input) > Len(output[i].tag)
          /\ normalizeTag(output[i].tag) = output[i].tag

(***************************************************************************)
(* Sidebar item ids                                                        *)
(***************************************************************************)
CallSanitizeId == Call("sanitizeId", sanitizeId(input))

\* sanitizeId on every string of at most MaxLen characters
SpecSanitizer == InitCall(Str(MaxLen)) /\ [][CallSanitizeId]_vars

\* the tags the engine can store: a token's tag and its ancestors, each of
\* which has the shape of a token's tag
StorableTags == {t \in Str(MaxLen) : TagPattern(t)}

\* C34: sanitizeId is injective on the tags the engine can store: two
\* different normalized tags that findTrailingTags can produce never get the
\* same sidebar item id.
C34_SanitizeIdInjective ==
    (last.op = "sanitizeId" /\ input \in StorableTags) =>
        \A t \in StorableTags : sanitizeId(t) = output => t = input

\* supporting check: the ids of two storable tags without "-" differ
C34_InjectiveWithoutHyphen ==
    (last.op = "sanitizeId" /\ input \in StorableTags /\ "-" \notin Range(input)) =>
        \A t \in StorableTags :
            (sanitizeId(t) = output /\ "-" \notin Range(t)) => t = input

(***************************************************************************)
(* The sidebar forest of a document the engine tagged                      *)
(***************************************************************************)
\* row texts with tags of up to three segments; the last two give one tag set
DeepTexts == {
    <<"#", "a", " ", "b">>,
    <<"a", " ", "#", "b", " ", "#", "a", "/", "b">>,
    <<"#", "a", "/", "b", "/", "a">>,
    <<"#", "a", "/", "a">>,
    <<"#", "a", " ", "#", "a", "/", "a">> }

NextDeep ==
    \/ \E r \in Rows, t \in DeepTexts : EditText(r, t)
    \/ \E r \in Rows : ApplyTagsToRowId(r)
    \/ ApplyTagsCommand

\* a document without tag-set attributes, edited and re-tagged
SpecDeep == InitClean /\ [][NextDeep]_vars

\* the tags at the end of the root-to-node paths of a forest
Reached(forest) == {p[Len(p)] : p \in RootPaths(forest)}

\* C31: in every state reached from a document without tag-set attributes by
\* text edits and updater runs, the forest buildTagHierarchy(indexAllTags(outline))
\* has a node for tag T exactly when T is in some row's persisted tag set (no
\* synthesized parent), every indexed tag is reached from a root, and the
\* roots are exactly the indexed tags without "/".
C31_ForestOfPersistedTags ==
    \E forest \in {buildTagHierarchy(indexAllTags(Outline))} :
        /\ DOMAIN forest.nodeMap = ExpectedIndex
        /\ Reached(forest) = indexAllTags(Outline)
        /\ Range(forest.rootNodes) = {t \in indexAllTags(Outline) : FirstSlash(t) = 0}
        /\ indexAllTags(Outline) = ExpectedIndex

\* the updater has stored a tag of three segments on one row and a tag under
\* another root on the other
C31_Witness ==
    /\ last.op = "apply"
    /\ \E t \in indexAllTags(Outline) : Depth(t) = 3
    /\ Cardinality({t \in indexAllTags(Outline) : FirstSlash(t) = 0}) = 2
    /\ \A r \in Rows : WellFormed(Stored(r))

(***************************************************************************)
(* Markers when the updater returns                                        *)
(***************************************************************************)
ColorAttrs == {ColorAttr(k) : k \in 0..(COLOR_COUNT - 1)}

\* every trailing token of text carries the biketag marker and one colour
\* marker over its whole span, and no such marker lies outside the spans
MarkedOnSpans(marks, text) ==
    /\ \A sp \in TrailingTagSpans(text) :
          /\ \A p \in sp[1]..(sp[2] - 1) : [name |-> "biketag", pos |-> p] \in marks
          /\ \E n \in ColorAttrs :
                \A p \in sp[1]..(sp[2] - 1) : [name |-> n, pos |-> p] \in marks
    /\ \A m \in marks :
          m.name \in ColorAttrs \cup {"biketag"}
              => \E sp \in TrailingTagSpans(text) : m.pos \in sp[1]..(sp[2] - 1)

\* applyTagsToRow has just returned on row r
JustReturned(r) ==
    \/ last.op = "apply" /\ last.row = r
    \/ last.op = "apply-all"

\* C32: whenever applyTagsToRow has just returned on a row with at least one
\* trailing token, whether it changed the row or skipped it because the tag
\* set was unchanged, every trailing token of the row carries a biketag marker
\* and a colour marker on exactly its span.
C32_MarkedOnReturn ==
    \A r \in Rows :
        (JustReturned(r) /\ HasTokens(r)) => MarkedOnSpans(markers[r], rowText[r])

\* supporting check: the claim holds when the call changed the row and the
\* tokens are reported where they are
C32_HoldsWhenRewritten ==
    \A r \in Rows :
        ( /\ last.op = "apply" /\ last.row = r /\ last.branch = "applied"
          /\ SpansAreTrue(rowText[r]) )
            => MarkedOnSpans(markers[r], rowText[r])

\* supporting check: the skip leaves the row as the edits left it
C32_SkipTouchesNothing ==
    [][\A r \in Rows :
          (last'.op = "apply" /\ last'.row = r /\ last'.branch = "equal")
              => markers'[r] = markers[r] /\ last'.calls = 0]_vars

(***************************************************************************)
(* The sidebar items of the windows                                        *)
(***************************************************************************)
\* the callback of bike.observeWindows with an open window that has a
\* sidebar: setupTagsSidebarOnce(w), and setupTagsSidebar(w) inside it
ObserveWindowsSetUp(w) ==
    /\ w \in windows.open
    /\ \E hierarchy \in {updateSidebarTags(Outline).hierarchy} :
          windows' = IF w \in windows.initializedWindows THEN windows
                     ELSE [setupTagsSidebarOnce(windows, w, "ok") EXCEPT
                             !.panel[w] = setupTagsSidebar(@, hierarchy, windows.policy)]
    /\ last' = Op("observeWindows", w,
                  IF w \in windows.initializedWindows THEN "skipped" ELSE "setup",
                  None, 0, FALSE, 0)
    /\ UNCHANGED <<document, txn, sidebar, threading, workspace>>

\* the command biketags:rebuild-sidebar: setupTagsSidebar(bike.frontmostWindow)
RebuildSidebarCommand ==
    IF windows.frontmost = 0
    THEN /\ last' = Op("biketags:rebuild-sidebar", 0, "false", None, 0, FALSE, 0)
         /\ UNCHANGED <<document, shell>>
    ELSE /\ windows.panel[windows.frontmost].closures < MaxSetups
         /\ \E hierarchy \in {updateSidebarTags(Outline).hierarchy} :
               windows' = [windows EXCEPT
                             !.panel[windows.frontmost] =
                                 setupTagsSidebar(@, hierarchy, windows.policy)]
         /\ last' = Op("biketags:rebuild-sidebar", windows.frontmost, "true",
                       None, 0, FALSE, 0)
         /\ UNCHANGED <<document, txn, sidebar, threading, workspace>>

\* window w gets an outline editor, or loses the one it has
OutlineEditorChange(w) ==
    /\ w \in windows.open
    /\ \E hierarchy \in {updateSidebarTags(Outline).hierarchy} :
          windows' = [windows EXCEPT
                        !.panel[w] = observeCurrentOutlineEditor(
                                         [@ EXCEPT !.editor = ~@], 1,
                                         ~windows.panel[w].editor, hierarchy,
                                         windows.policy)]
    /\ last' = Op("observeCurrentOutlineEditor", w, "-", None, 0, FALSE, 0)
    /\ UNCHANGED <<document, txn, sidebar, threading, workspace>>

\* the windows whose sidebars are followed; the tags of the document are
\* those of its first row
PanelWindows == 1..MaxPanels

NextItems ==
    \/ \E w \in PanelWindows : OpenWindow(w)
    \/ \E w \in PanelWindows \cup {0} : SwitchWindow(w)
    \/ \E w \in PanelWindows : ObserveWindowsSetUp(w)
    \/ RebuildSidebarCommand
    \/ \E w \in PanelWindows : OutlineEditorChange(w)
    \/ \E t \in SidebarTexts : EditText(1, t)
    \/ ApplyTagsToRowId(1)
    \/ StreamQuery

\* a document without tag-set attributes, no window open, under either
\* behaviour of the host on a repeated item id
InitItems ==
    /\ InitDoc({<<None, None>>})
    /\ txn = TxnInit
    /\ sidebar = SidebarInit
    /\ windows \in {[WindowsInit EXCEPT !.policy = p] : p \in DuplicatePolicies}
    /\ threading = ThreadingInit
    /\ workspace = WorkspaceInit

SpecItems == InitItems /\ [][NextItems]_vars

\* at most one live item per id, the group item among them, and every live
\* tag item made by the closure that rebuilt last
OneItemPerId(panel) ==
    /\ \A i, j \in panel.items : i.id = j.id => i = j
    /\ \A i \in panel.items : i.id # GroupId => i.by = panel.latest

\* C33: after any sequence of window observations, editor changes, tag-set
\* changes and rebuild-sidebar commands, each window has at most one live
\* "Tags" group item and at most one live sidebar item per tag, and the live
\* tag items are those of the most recent rebuild: every item of an earlier
\* rebuild has been disposed.
C33_OneLiveItemPerTag == \A w \in Windows : OneItemPerId(windows.panel[w])

\* supporting check: the claim holds in a window on which setupTagsSidebar
\* has run once
C33_HoldsWithOneSetup ==
    \A w \in Windows :
        windows.panel[w].closures <= 1 => OneItemPerId(windows.panel[w])

====
